---- MODULE Spec2Model ----
(***************************************************************************)
(* A model of the RISC OS zip metadata record (ZipInfoRISCOS, rozipinfo.py) *)
(* and of the parts of the archive facade (RISCOSZipFile, rozipfile.py)     *)
(* that use it.                                                             *)
(*                                                                          *)
(* Conventions of the model                                                 *)
(*   - a Python bytes/str value is a sequence of one-character strings or,  *)
(*     for binary data, a sequence of bytes (0..255);                       *)
(*   - a 32-bit word is the sequence <<b0,b1,b2,b3>> of its bytes, least    *)
(*     significant first, exactly as struct.pack('<I', w) lays it out (the  *)
(*     model checker's integers are 32-bit signed, so 0xFFF00000 is not an  *)
(*     integer of the model); a quin is the 5-byte sequence of its 40 bits; *)
(*   - a negative Python int -256 + b, which `x | (-1 << 8)` produces, is   *)
(*     the 5-element sequence <<b,255,255,255,-1>>: its low 32 bits and a   *)
(*     sign marker;                                                         *)
(*   - None is the empty sequence and a value v that may be None is <<v>>.  *)
(***************************************************************************)
EXTENDS Integers, Sequences, FiniteSets, TLC

VARIABLES
    zi,             \* the ZipInfoRISCOS object under test (a record of its fields)
    exc,            \* the exception the last operation raised, "" when none
    nops,           \* number of operations applied so far (bounded by MaxOps)
    setter_ran,     \* history: a riscos_* property setter was called by the user
    arc0_assigned,  \* history: an extra value carrying an ARC0 chunk was assigned
    assigned_extra, \* history: the extra value most recently assigned
    last_op,        \* name of the last operation applied
    extract_target, \* the name extract() joined onto the destination path, or None
    san_in,         \* arguments drawn for a sanitiser or codec call
    san_out,        \* what the calls made on them returned
    rzf,            \* the RISCOSZipFile object under test (a record of its fields)
    in_with         \* the caller is inside the with-block that manages rzf

vars == <<zi, exc, nops, setter_ran, arc0_assigned, assigned_extra, last_op, extract_target,
          san_in, san_out, rzf, in_with>>

----------------------------------------------------------------------------
(* Option values *)

None == <<>>

\* the value of o, or d when o is None
OrElse(o, d) == IF o = <<>> THEN d ELSE o[1]

Some(v) == <<v>>

IsNone(o) == o = <<>>

NotNone(o) == o # <<>>

Val(o) == o[1]

----------------------------------------------------------------------------
(* Sequences *)

Min(a, b) == IF a < b THEN a ELSE b

Max(a, b) == IF a > b THEN a ELSE b

\* s[i:] for a 0-based Python index i >= 0
From(s, i) == IF i >= Len(s) THEN <<>> ELSE SubSeq(s, i + 1, Len(s))

\* s[:k] for k >= 0
Upto(s, k) == SubSeq(s, 1, Min(k, Len(s)))

\* s[-k:] for 0 < k
LastN(s, k) == IF k >= Len(s) THEN s ELSE SubSeq(s, Len(s) - k + 1, Len(s))

\* s[:-k] for 0 < k
DropLast(s, k) == IF k >= Len(s) THEN <<>> ELSE SubSeq(s, 1, Len(s) - k)

StartsWith(s, p) == Len(s) >= Len(p) /\ SubSeq(s, 1, Len(p)) = p

EndsWith(s, p) == Len(s) >= Len(p) /\ SubSeq(s, Len(s) - Len(p) + 1, Len(s)) = p

Contains(s, c) == \E i \in 1..Len(s) : s[i] = c

\* index (1-based) of the first occurrence of p in s at or after position i, 0 if none
FindFrom(s, p, i) ==
    IF \E k \in i..(Len(s) - Len(p) + 1) : SubSeq(s, k, k + Len(p) - 1) = p
    THEN CHOOSE k \in i..(Len(s) - Len(p) + 1) :
             /\ SubSeq(s, k, k + Len(p) - 1) = p
             /\ \A m \in i..(k - 1) : SubSeq(s, m, m + Len(p) - 1) # p
    ELSE 0

HasSub(s, p) == FindFrom(s, p, 1) # 0

\* bytes.replace(old, new): every non-overlapping occurrence, scanning left to right
RECURSIVE Replace(_, _, _)
\* the occurrence at position i (0: there is none) replaced, and those after it
ReplaceAt(s, old, new, i) ==
    IF i = 0 THEN s
    ELSE SubSeq(s, 1, i - 1) \o new \o Replace(From(s, i + Len(old) - 1), old, new)

Replace(s, old, new) ==
    IF Len(s) < Len(old) THEN s ELSE ReplaceAt(s, old, new, FindFrom(s, old, 1))

\* s without the prefix p, when it starts with it
StripPrefix(s, p) == IF StartsWith(s, p) THEN From(s, Len(p)) ELSE s

\* s without the suffix p, when it ends with it
StripSuffix(s, p) == IF EndsWith(s, p) THEN DropLast(s, Len(p)) ELSE s

\* index (1-based) of the last occurrence of character c in s, 0 if none
RFind(s, c, i) ==
    IF \E k \in 1..i : s[k] = c
    THEN CHOOSE k \in 1..i : s[k] = c /\ \A m \in (k + 1)..i : s[m] # c
    ELSE 0

MapSeq(s, F(_)) == [i \in 1..Len(s) |-> F(s[i])]

----------------------------------------------------------------------------
(* Program constants *)

\* header_id_riscos = 0x4341, the 16-bit header id of the RISC OS chunk
header_id_riscos == 17217

\* header_id_riscos_spark = 0x30435241 as its four bytes, "ARC0"
header_id_riscos_spark == <<65, 82, 67, 48>>

default_filetype_class == 4093

default_filetype_text == 4095

directory_filetype == 4096

directory_filetype_internal == 4093

\* the DOS attribute bits of external_attr used by the record
external_attr_msdos_readonly == 1

external_attr_msdos_directory == 16

internal_attr_text == 1

nfs_encoding_hexdigits ==
    <<"0","1","2","3","4","5","6","7","8","9","a","b","c","d","e","f">>

\* int(70*365.25): the days from 1900-01-01 to 1970-01-01; the source holds the
\* same span in seconds, 25567 * 86400 = 2208988800
unix_epoch_to_riscos_epoch_days == 25567

----------------------------------------------------------------------------
(* 32-bit words as byte sequences *)

Byte == 0..255

\* the sign marker of a negative Python int
IsNegative(w) == Len(w) = 5

\* (w & 0xFFF00000) == 0xFFF00000
IsTyped(w) == w[4] = 255 /\ w[3] \div 16 = 15

\* (w >> 8) & 0xFFF
FiletypeOf(w) == ((w[3] % 16) * 256) + w[2]

\* (w & 0xFFF000FF) | (filetype << 8); with filetype -1 the result is the
\* negative int -256 | (w & 0xFF)
WithFiletype(w, filetype) ==
    IF filetype < 0 THEN <<w[1], 255, 255, 255, -1>>
    ELSE <<w[1], filetype % 256, ((w[3] \div 16) * 16) + ((filetype \div 256) % 16), w[4]>>

\* the hex digit of n in 0..15
HexDigit(n) == nfs_encoding_hexdigits[n + 1]

\* '{:08x}'.format(w) for a word in 0..2^32-1
Hex8(w) ==
    << HexDigit(w[4] \div 16), HexDigit(w[4] % 16),
       HexDigit(w[3] \div 16), HexDigit(w[3] % 16),
       HexDigit(w[2] \div 16), HexDigit(w[2] % 16),
       HexDigit(w[1] \div 16), HexDigit(w[1] % 16) >>

\* '{:03x}'.format(filetype) for a filetype in 0..0xFFF
Hex3(filetype) ==
    << HexDigit((filetype \div 256) % 16), HexDigit((filetype \div 16) % 16),
       HexDigit(filetype % 16) >>

\* '{:3x}'.format(filetype): as Hex3 but padded with spaces, not zeros
Hex3Spaces(filetype) ==
    IF filetype < 16 THEN <<" ", " ", HexDigit(filetype)>>
    ELSE IF filetype < 256 THEN <<" ", HexDigit(filetype \div 16), HexDigit(filetype % 16)>>
    ELSE Hex3(filetype)

IsHexDigit(c) == \E i \in 1..16 : nfs_encoding_hexdigits[i] = c

HexVal(c) == (CHOOSE i \in 1..16 : nfs_encoding_hexdigits[i] = c) - 1

\* int(s, 16) for two hex digits
HexByte(hi, lo) == (HexVal(hi) * 16) + HexVal(lo)

\* int(s, 16) for a string of 8 hex digits, as a word
ParseHex8(s) == <<HexByte(s[7], s[8]), HexByte(s[5], s[6]), HexByte(s[3], s[4]), HexByte(s[1], s[2])>>

\* int(s, 16) for a string of 3 hex digits
ParseHex3(s) == (HexVal(s[1]) * 256) + (HexVal(s[2]) * 16) + HexVal(s[3])

\* quin_to_loadexec with no test for the directory filetype
internal_filetype_unchanged(filetype) == filetype

\* filetype, with directory_filetype replaced by directory_filetype_internal
internal_filetype(filetype) ==
    IF filetype = directory_filetype THEN directory_filetype_internal ELSE filetype

\* truthiness of a word: `if loadaddr:`
WordNonZero(w) == w # <<0, 0, 0, 0>>

----------------------------------------------------------------------------
(* Time conversions                                                        *)
(*                                                                         *)
(* The source converts through floating-point seconds (quin / 100.0,       *)
(* int(epochtime * 100)).  The model uses exact integer arithmetic, which  *)
(* agrees with the source on every instant that the model's inputs reach.  *)

\* days from 1970-01-01 to the civil date y-m-d (proleptic Gregorian), the day
\* count behind datetime.datetime(y, m, d) - datetime_epochtime
days_from_civil(y, m, d) ==
    LET yy  == IF m <= 2 THEN y - 1 ELSE y
        era == yy \div 400
        yoe == yy - (era * 400)
        mp  == IF m > 2 THEN m - 3 ELSE m + 9
        doy == (((153 * mp) + 2) \div 5) + d - 1
        doe == (yoe * 365) + (yoe \div 4) - (yoe \div 100) + doy
    IN  (era * 146097) + doe - 719468

\* the civil date <<y, m, d>> from the month counted from March
civil_from_mp(era, yoe, doy, mp) ==
    <<yoe + (era * 400) + (IF mp < 10 THEN 0 ELSE 1),
      IF mp < 10 THEN mp + 3 ELSE mp - 9,
      doy - (((153 * mp) + 2) \div 5) + 1>>

\* from the day of the year (counted from 1 March)
civil_from_doy(era, yoe, doy) == civil_from_mp(era, yoe, doy, ((5 * doy) + 2) \div 153)

\* from the year of the era
civil_from_yoe(era, doe, yoe) ==
    civil_from_doy(era, yoe, doe - ((365 * yoe) + (yoe \div 4) - (yoe \div 100)))

\* from the 400-year era and the day of the era
civil_from_doe(era, doe) ==
    civil_from_yoe(era, doe,
                   (doe - (doe \div 1460) + (doe \div 36524) - (doe \div 146096)) \div 365)

\* datetime.datetime.utcfromtimestamp: the civil date of a day count from 1970-01-01
civil_from_days(z) ==
    civil_from_doe((z + 719468) \div 146097,
                   (z + 719468) - (((z + 719468) \div 146097) * 146097))

\* A quin (5 bytes, least significant first) counts centiseconds from
\* 1900-01-01; 8640000 centiseconds a day = 256 * 33750.
\* The quin as <<days since 1900-01-01, centiseconds within the day>>.
quin_split(q) ==
    LET r4 == q[5] % 33750
        t3 == (r4 * 256) + q[4]
        t2 == ((t3 % 33750) * 256) + q[3]
        t1 == ((t2 % 33750) * 256) + q[2]
        d3 == ((q[5] \div 33750) * 256) + (t3 \div 33750)
        d2 == (d3 * 256) + (t2 \div 33750)
        days == (d2 * 256) + (t1 \div 33750)
    IN  <<days, ((t1 % 33750) * 256) + q[1]>>

\* days * 8640000 + cs as a quin, truncated to 40 bits
quin_join(days, cs) ==
    LET dl == days % 256
        dh == days \div 256
        t1 == (33750 * dl) + (cs \div 256)
        t2 == (33750 * dh) + (t1 \div 256)
    IN  <<cs % 256, t1 % 256, t2 % 256, (t2 \div 256) % 256, (t2 \div 65536) % 256>>

\* the 7-tuple (year, month, day, hour, minute, second, int(microsecond / 1000))
\* the callers of quin_to_datetime build from its result
datetime_tuple(ymd, cs) ==
    Some(<<ymd[1], ymd[2], ymd[3],
           cs \div 360000, (cs \div 6000) % 60, (cs \div 100) % 60, (cs % 100) * 10>>)

\* the 7-tuple of a quin split into days and centiseconds
quin_split_to_datetime(sp) ==
    datetime_tuple(civil_from_days(sp[1] - unix_epoch_to_riscos_epoch_days), sp[2])

\* quin_to_datetime(quin), as the 7-tuple
quin_to_datetime(quin) ==
    IF IsNone(quin) \/ Val(quin) = <<0, 0, 0, 0, 0>> THEN None
    ELSE quin_split_to_datetime(quin_split(Val(quin)))

\* datetime_to_quin(tuple_to_datetime(t)) for a 6- or 7-element tuple: the
\* 7th element is taken as milliseconds (int(t[6]) * 1000 microseconds)
datetime_to_quin(t) ==
    quin_join(days_from_civil(t[1], t[2], t[3]) + unix_epoch_to_riscos_epoch_days,
              ((((t[4] * 60) + t[5]) * 60 + t[6]) * 100)
                  + ((IF Len(t) = 7 THEN t[7] ELSE 0) \div 10))

\* loadexec_to_quin(loadaddr=, execaddr=): None unless the load address is typed
loadexec_to_quin(loadaddr, execaddr) ==
    IF WordNonZero(loadaddr) /\ IsTyped(loadaddr)
    THEN Some(<<execaddr[1], execaddr[2], execaddr[3], execaddr[4], loadaddr[1]>>)
    ELSE None

\* quin_to_loadexec(quin, filetype): <<loadaddr, execaddr>>
quin_to_loadexec(quin, filetype) ==
    << WithFiletype(<<quin[5], 0, 240, 255>>, internal_filetype(filetype)),
       <<quin[1], quin[2], quin[3], quin[4]>> >>

----------------------------------------------------------------------------
(* Bit operations on non-negative integers below 2^16 *)

RECURSIVE BitAnd(_, _)
BitAnd(a, b) ==
    IF a = 0 \/ b = 0 THEN 0
    ELSE ((a % 2) * (b % 2)) + (2 * BitAnd(a \div 2, b \div 2))

BitOr(a, b) == a + b - BitAnd(a, b)

BitClear(a, b) == a - BitAnd(a, b)

----------------------------------------------------------------------------
(* Extra-field codec *)

\* the while loop of extract_extra_fields, from byte offset `offset`; a chunk is
\* the tuple <<header_id, data>>
RECURSIVE extract_chunks(_, _)
extract_chunks(extra, offset) ==
    IF ~(offset < Len(extra) - 4) THEN <<>>
    ELSE LET header_id   == extra[offset + 1] + (256 * extra[offset + 2])
             data_length == extra[offset + 3] + (256 * extra[offset + 4])
             data        == SubSeq(extra, offset + 5, Min(offset + 4 + data_length, Len(extra)))
         IN  <<<<header_id, data>>>> \o extract_chunks(extra, offset + 4 + data_length)

extract_extra_fields(extra) ==
    IF extra = <<>> THEN <<>> ELSE extract_chunks(extra, 0)

\* struct.pack('<HH', header_id, length)
pack_HH(header_id, length) ==
    <<header_id % 256, header_id \div 256, length % 256, length \div 256>>

RECURSIVE build_extra_fields(_)
build_extra_fields(chunks) ==
    IF chunks = <<>> THEN <<>>
    ELSE pack_HH(chunks[1][1], Len(chunks[1][2])) \o chunks[1][2]
         \o build_extra_fields(Tail(chunks))

\* a chunk the extra getter and setter unpack: its header id is 0x4341
IsRiscosChunk(chunk) == chunk[1] = header_id_riscos

\* struct.unpack('<I', data[:4]) raises struct.error unless 4 bytes are there
UnpackTypeRaises(chunk) == Len(chunk[2]) < 4

\* riscos_type == header_id_riscos_spark
IsSparkChunk(chunk) ==
    IsRiscosChunk(chunk) /\ ~UnpackTypeRaises(chunk) /\ Upto(chunk[2], 4) = header_id_riscos_spark

----------------------------------------------------------------------------
(* Filename codec *)

\* the byte 0xA0 of the RISC OS locale (a hard space)
NBSP == "<A0>"

\* name.replace(' ', '\xa0').encode(filename_encoding_name, 'replace'), for
\* names within Latin-1
encode_to_riscos(name) == MapSeq(name, LAMBDA c : IF c = " " THEN NBSP ELSE c)

\* name.decode(filename_encoding_name, 'replace').replace('\xa0', ' ')
decode_from_riscos(name) == MapSeq(name, LAMBDA c : IF c = NBSP THEN " " ELSE c)

\* name.translate(exchange_dot_slash)
exchange_dot_slash(name) ==
    MapSeq(name, LAMBDA c : IF c = "/" THEN "." ELSE IF c = "." THEN "/" ELSE c)

RECURSIVE LStrip(_, _)
LStrip(s, c) == IF s # <<>> /\ s[1] = c THEN LStrip(Tail(s), c) ELSE s

\* while b'//' in name: name = name.replace(b'//', b'/')
RECURSIVE CollapseSlashes(_)
CollapseSlashes(s) ==
    IF HasSub(s, <<"/", "/">>) THEN CollapseSlashes(Replace(s, <<"/", "/">>, <<"/">>)) ELSE s

\* while name.startswith(b'../'): name = name[3:]
RECURSIVE StripLeadingParents(_)
StripLeadingParents(s) ==
    IF StartsWith(s, <<".", ".", "/">>) THEN StripLeadingParents(From(s, 3)) ELSE s

\* The length of the match of sanitise_unix_relative_re = [^/]+/\.\.(/|$) that
\* starts at position i of s, 0 when there is none: the run of non-'/'
\* characters from i must reach a '/' that is followed by '..' and then by '/'
\* or the end of the name.
\* RelativeMatchTo: with j the first '/' at or after i, 0 when there is none.
RelativeMatchTo(s, i, j) ==
    IF j = 0 \/ j + 2 > Len(s) \/ s[j + 1] # "." \/ s[j + 2] # "." THEN 0
    ELSE IF j + 2 = Len(s) THEN j + 3 - i
    ELSE IF s[j + 3] = "/" THEN j + 4 - i
    ELSE 0

RelativeMatchAt(s, i) ==
    IF s[i] = "/" THEN 0 ELSE RelativeMatchTo(s, i, FindFrom(s, <<"/">>, i))

\* the while loop around sanitise_unix_relative_re.subn(b'', name, count=1): the
\* leftmost match is removed until there is none
RECURSIVE RemoveRelative(_)
\* the match that starts at position i removed, and the loop continued
RemoveRelativeAt(s, i) ==
    RemoveRelative(SubSeq(s, 1, i - 1) \o From(s, i - 1 + RelativeMatchAt(s, i)))

RemoveRelative(s) ==
    IF \A i \in 1..Len(s) : RelativeMatchAt(s, i) = 0 THEN s
    ELSE RemoveRelativeAt(s, CHOOSE i \in 1..Len(s) :
                                 /\ RelativeMatchAt(s, i) > 0
                                 /\ \A m \in 1..(i - 1) : RelativeMatchAt(s, m) = 0)

\* the last two steps: a bare '.' or '..' becomes empty, and an empty name 'root'
sanitise_unix_bare(name) ==
    IF name = <<".">> \/ name = <<".", ".">> \/ name = <<>> THEN <<"r", "o", "o", "t">>
    ELSE name

\* sanitise_unix(name), a pipeline with the first step innermost
sanitise_unix(name) ==
    IF name = <<>> THEN <<"r", "o", "o", "t">>
    ELSE sanitise_unix_bare(
             RemoveRelative(
                 StripLeadingParents(
                     StripSuffix(
                         StripPrefix(
                             Replace(CollapseSlashes(LStrip(name, "/")),
                                     <<"/", ".", "/">>, <<"/">>),
                             <<".", "/">>),
                         <<"/", ".">>))))

\* the anchors sanitise_riscos strips from the start of a name
AnchorChars == {"$", "@", "%", "\\", "&", "^"}

HasAnchorPrefix(s) == Len(s) >= 2 /\ s[1] \in AnchorChars /\ s[2] = "."

\* while name.startswith((b'$.', ...)): name = name[2:]
RECURSIVE StripAnchors(_)
StripAnchors(s) == IF HasAnchorPrefix(s) THEN StripAnchors(From(s, 2)) ELSE s

\* sanitise_riscos(name), a pipeline with the first step innermost
sanitise_riscos(name) ==
    IF name = <<>> THEN <<>>
    ELSE StripSuffix(
             StripPrefix(
                 Replace(
                     Replace(
                         Replace(
                             Replace(
                                 Replace(
                                     Replace(
                                         StripAnchors(
                                             Replace(Replace(name, <<"<">>, <<"(">>),
                                                     <<">">>, <<")">>)),
                                         <<"*">>, <<"(", "s", "t", "a", "r", ")">>),
                                     <<"?">>, <<"(", "q", ")">>),
                                 <<".", "^">>, <<>>),
                             <<":">>, <<"-", "-">>),
                         <<"\"">>, <<"'">>),
                     <<"#">>, <<"(", "h", ")">>),
                 <<".">>),
             <<".">>)

unix_to_riscos(name) == sanitise_riscos(exchange_dot_slash(sanitise_unix(name)))

riscos_to_unix(name) == exchange_dot_slash(sanitise_riscos(name))

----------------------------------------------------------------------------
(* NFS-encoding codec *)

AllHex(s) == \A i \in 1..Len(s) : IsHexDigit(s[i])

\* extract_nfs_encoding with the filetype field of the load address returned
\* whether or not the load address is typed
extract_nfs_encoding_always_typed(name) ==
    LET n == Len(name)
    IN  IF n > 4 /\ name[n - 3] = "," /\ AllHex(LastN(name, 3))
        THEN <<DropLast(name, 4), None, None, Some(ParseHex3(LastN(name, 3)))>>
        ELSE IF n > 18 /\ name[n - 8] = "," /\ name[n - 17] = ","
                /\ AllHex(LastN(name, 8)) /\ AllHex(SubSeq(name, n - 16, n - 9))
        THEN <<DropLast(name, 18), Some(ParseHex8(SubSeq(name, n - 16, n - 9))),
               Some(ParseHex8(LastN(name, 8))),
               Some(FiletypeOf(ParseHex8(SubSeq(name, n - 16, n - 9))))>>
        ELSE <<name, None, None, None>>

\* extract_nfs_encoding(name): <<name, loadaddr, execaddr, filetype>>, the
\* last three None when absent
extract_nfs_encoding(name) ==
    LET n == Len(name)
        loadexec(loadaddr, execaddr) ==
            <<DropLast(name, 18), Some(loadaddr), Some(execaddr),
              IF IsTyped(loadaddr) THEN Some(FiletypeOf(loadaddr)) ELSE None>>
    IN  IF n > 4 /\ name[n - 3] = "," /\ AllHex(LastN(name, 3))
        THEN <<DropLast(name, 4), None, None, Some(ParseHex3(LastN(name, 3)))>>
        ELSE IF n > 18 /\ name[n - 8] = "," /\ name[n - 17] = ","
                /\ AllHex(LastN(name, 8)) /\ AllHex(SubSeq(name, n - 16, n - 9))
        THEN loadexec(ParseHex8(SubSeq(name, n - 16, n - 9)), ParseHex8(LastN(name, 8)))
        ELSE <<name, None, None, None>>

\* the name build_nfs_encoding returns for the base name, with filetype
\* already taken from a typed load address
nfs_encoded(base, loadaddr, execaddr, filetype) ==
    IF NotNone(loadaddr) /\ NotNone(execaddr) /\ ~IsTyped(Val(loadaddr))
    THEN base \o <<",">> \o Hex8(Val(loadaddr)) \o <<",">> \o Hex8(Val(execaddr))
    ELSE IF NotNone(filetype) THEN base \o <<",">> \o Hex3(Val(filetype))
    ELSE base

\* build_nfs_encoding(name, loadaddr, execaddr, filetype)
build_nfs_encoding(name, loadaddr, execaddr, filetype) ==
    nfs_encoded(extract_nfs_encoding(name)[1], loadaddr, execaddr,
                IF NotNone(loadaddr) /\ NotNone(execaddr) /\ IsTyped(Val(loadaddr))
                THEN Some(FiletypeOf(Val(loadaddr)))
                ELSE filetype)

----------------------------------------------------------------------------
(* The metadata record: getters                                            *)
(*                                                                         *)
(* A record r has the fields of a ZipInfoRISCOS object that the properties *)
(* read and write.  external_attr is split into its low 16 bits (lo, whose *)
(* low byte holds the DOS attributes) and its high 16 bits (hi, the POSIX  *)
(* mode).  default_filetype is the class attribute, which the archive      *)
(* facade overrides per archive.  r.exc is not a field of the object: it   *)
(* names the exception that ended the operation that produced r.           *)

\* filename.lower() on the letters the mapping tables can match
UpperLetters == <<"C", "H", "S", "T", "X", "Z", "I", "P", "D", "R", "M", "G", "E", "F">>

LowerLetters == <<"c", "h", "s", "t", "x", "z", "i", "p", "d", "r", "m", "g", "e", "f">>

LowerChar(c) ==
    IF \E i \in 1..Len(UpperLetters) : UpperLetters[i] = c
    THEN LowerLetters[CHOOSE i \in 1..Len(UpperLetters) : UpperLetters[i] = c]
    ELSE c

Lower(name) == MapSeq(name, LowerChar)

\* filetype_extension_mappings.get(ext)
filetype_extension_mappings(ext) ==
    IF ext \in {<<"t", "x", "t">>, <<"c">>, <<"c", "+", "+">>, <<"h">>, <<"s">>} THEN Some(4095)
    ELSE IF ext = <<"z", "i", "p">> THEN Some(2705)
    ELSE None

\* filetype_parentdir_mappings.get(dirname)
filetype_parentdir_mappings(dirname) ==
    IF dirname \in {<<"c">>, <<"s">>, <<"c", "+", "+">>, <<"h">>, <<"h", "d", "r">>,
                    <<"c", "m", "h", "g">>, <<"d", "e", "f">>, <<"p">>, <<"i", "m", "p">>}
    THEN Some(4095)
    ELSE None

\* filetype_from_extension(ext): the MimeMap hook, which knows nothing off RISC OS
filetype_from_extension(ext) == None

\* name.rsplit(c, 1): <<before the last c, after the last c>>
RSplit(name, c) ==
    LET i == RFind(name, c, Len(name))
    IN  <<SubSeq(name, 1, i - 1), From(name, i)>>

filetype_based_on_filename(r) ==
    LET parentdir(dir) == IF Contains(dir, "/") THEN RSplit(dir, "/")[2] ELSE dir
        first(byext, bydir) == IF NotNone(byext) THEN byext ELSE bydir
    IN  first(IF Contains(r.filename, ".")
              THEN filetype_extension_mappings(Lower(RSplit(r.filename, ".")[2]))
              ELSE None,
              IF Contains(r.filename, "/")
              THEN filetype_parentdir_mappings(Lower(parentdir(RSplit(r.filename, "/")[1])))
              ELSE None)

riscos_objtype(r) ==
    IF NotNone(r._riscos_objtype) /\ Val(r._riscos_objtype) # 0 THEN Val(r._riscos_objtype)
    ELSE IF BitAnd(r.external_attr.lo, external_attr_msdos_directory) # 0 THEN 2
    ELSE 1

\* riscos_filetype with the explicitly set load address consulted before the
\* suffix of the filename
riscos_filetype_loadaddr_first(r) ==
    LET reported(nfs, mime, byname) ==
            IF riscos_objtype(r) = 2 THEN directory_filetype
            ELSE IF NotNone(r._riscos_filetype) THEN Val(r._riscos_filetype)
            ELSE IF NotNone(r._riscos_loadaddr)
            THEN IF ~IsTyped(Val(r._riscos_loadaddr)) THEN -1
                 ELSE FiletypeOf(Val(r._riscos_loadaddr))
            ELSE IF r._nfs_encoding /\ NotNone(nfs[4]) THEN Val(nfs[4])
            ELSE IF r._nfs_encoding /\ NotNone(nfs[2]) THEN -1
            ELSE IF NotNone(mime) /\ Val(mime) # 0 THEN Val(mime)
            ELSE IF NotNone(byname) /\ Val(byname) # 0 THEN Val(byname)
            ELSE IF BitAnd(r.internal_attr, internal_attr_text) # 0 THEN default_filetype_text
            ELSE r.default_filetype
    IN  reported(extract_nfs_encoding(r.filename),
                 IF Contains(r.filename, ".")
                 THEN filetype_from_extension(RSplit(r.filename, ".")[2])
                 ELSE None,
                 filetype_based_on_filename(r))

riscos_filetype(r) ==
    LET reported(nfs, mime, byname) ==
            IF riscos_objtype(r) = 2 THEN directory_filetype
            ELSE IF NotNone(r._riscos_filetype) THEN Val(r._riscos_filetype)
            ELSE IF r._nfs_encoding /\ NotNone(nfs[4]) THEN Val(nfs[4])
            ELSE IF r._nfs_encoding /\ NotNone(nfs[2]) THEN -1
            ELSE IF NotNone(r._riscos_loadaddr)
            THEN IF ~IsTyped(Val(r._riscos_loadaddr)) THEN -1
                 ELSE FiletypeOf(Val(r._riscos_loadaddr))
            ELSE IF NotNone(mime) /\ Val(mime) # 0 THEN Val(mime)
            ELSE IF NotNone(byname) /\ Val(byname) # 0 THEN Val(byname)
            ELSE IF BitAnd(r.internal_attr, internal_attr_text) # 0 THEN default_filetype_text
            ELSE r.default_filetype
    IN  reported(extract_nfs_encoding(r.filename),
                 IF Contains(r.filename, ".")
                 THEN filetype_from_extension(RSplit(r.filename, ".")[2])
                 ELSE None,
                 filetype_based_on_filename(r))

riscos_date_time(r) ==
    LET quin == IF NotNone(r._riscos_loadaddr)
                THEN loadexec_to_quin(Val(r._riscos_loadaddr),
                                      IF NotNone(r._riscos_execaddr) THEN Val(r._riscos_execaddr)
                                      ELSE <<0, 0, 0, 0>>)
                ELSE None
        reported(dt) ==
            IF NotNone(r._riscos_date_time) THEN Val(r._riscos_date_time)
            ELSE IF NotNone(dt) THEN Val(dt)
            ELSE r.date_time \o <<0>>
    IN  reported(quin_to_datetime(quin))

\* a riscos_loadaddr getter that lacks the directory branch: it folds
\* riscos_filetype into a typed stored load address whatever the object is
riscos_loadaddr_without_directory_branch(r) ==
    LET reported(nfs, filetype) ==
            IF NotNone(r._riscos_loadaddr)
            THEN IF IsTyped(Val(r._riscos_loadaddr))
                 THEN WithFiletype(Val(r._riscos_loadaddr), filetype)
                 ELSE Val(r._riscos_loadaddr)
            ELSE IF riscos_objtype(r) = 1 /\ r._nfs_encoding /\ NotNone(nfs[2]) THEN Val(nfs[2])
            ELSE quin_to_loadexec(datetime_to_quin(riscos_date_time(r)), filetype)[1]
    IN  reported(extract_nfs_encoding(r.filename), riscos_filetype(r))

\* the riscos_loadaddr getter, where filetype is what self.riscos_filetype reports
riscos_loadaddr_typed(r, filetype) ==
    IF NotNone(r._riscos_loadaddr)
    THEN IF IsTyped(Val(r._riscos_loadaddr))
         THEN IF filetype = directory_filetype
              THEN WithFiletype(Val(r._riscos_loadaddr), directory_filetype_internal)
              ELSE WithFiletype(Val(r._riscos_loadaddr), filetype)
         ELSE Val(r._riscos_loadaddr)
    ELSE OrElse(IF riscos_objtype(r) = 1 /\ r._nfs_encoding
                THEN extract_nfs_encoding(r.filename)[2]
                ELSE None,
                quin_to_loadexec(datetime_to_quin(riscos_date_time(r)), filetype)[1])

riscos_loadaddr(r) == riscos_loadaddr_typed(r, riscos_filetype(r))

riscos_execaddr(r) ==
    OrElse(r._riscos_execaddr,
           OrElse(IF r._nfs_encoding THEN extract_nfs_encoding(r.filename)[3] ELSE None,
                  quin_to_loadexec(datetime_to_quin(riscos_date_time(r)),
                                   default_filetype_text)[2]))

\* riscos_attr inferred from the DOS read-only bit alone
riscos_attr_dos_only(r) ==
    IF NotNone(r._riscos_attr) THEN Val(r._riscos_attr)
    ELSE IF BitAnd(r.external_attr.lo, external_attr_msdos_readonly) # 0 THEN <<17, 0, 0, 0>>
    ELSE <<51, 0, 0, 0>>

riscos_attr(r) ==
    IF NotNone(r._riscos_attr) THEN Val(r._riscos_attr)
    ELSE IF r.external_attr.hi # 0
    THEN <<(IF BitAnd(r.external_attr.hi, 146) # 0 THEN 34 ELSE 0)
           + (IF BitAnd(r.external_attr.hi, 292) # 0 THEN 17 ELSE 0), 0, 0, 0>>
    ELSE IF BitAnd(r.external_attr.lo, external_attr_msdos_readonly) # 0 THEN <<17, 0, 0, 0>>
    ELSE <<51, 0, 0, 0>>

riscos_filename(r) ==
    OrElse(r._riscos_filename,
           unix_to_riscos(encode_to_riscos(IF r._nfs_encoding
                                           THEN extract_nfs_encoding(r.filename)[1]
                                           ELSE r.filename)))

\* an extra getter that lacks the early return on _riscos_present: it rebuilds
\* the RISC OS chunk on every read
extra_without_present_test(r) ==
    LET last_spark(sparks) ==
            IF sparks = {} THEN 0 ELSE CHOOSE i \in sparks : \A j \in sparks : j <= i
        rebuilt(chunks, riscos_index, loadaddr, new_chunk) ==
            IF \E i \in 1..Len(chunks) : IsRiscosChunk(chunks[i]) /\ UnpackTypeRaises(chunks[i])
            THEN <<"struct.error", <<>>>>
            ELSE IF r._nfs_encoding
            THEN <<"", build_extra_fields(
                           IF riscos_index = 0 THEN chunks
                           ELSE SubSeq(chunks, 1, riscos_index - 1) \o From(chunks, riscos_index))>>
            ELSE IF IsNegative(loadaddr) THEN <<"struct.error", <<>>>>
            ELSE <<"", build_extra_fields(
                           IF riscos_index = 0 THEN Append(chunks, new_chunk)
                           ELSE [chunks EXCEPT ![riscos_index] = new_chunk])>>
        with_chunks(chunks, loadaddr) ==
            rebuilt(chunks, last_spark({i \in 1..Len(chunks) : IsSparkChunk(chunks[i])}), loadaddr,
                    <<header_id_riscos,
                      header_id_riscos_spark \o Upto(loadaddr, 4)
                          \o riscos_execaddr(r) \o riscos_attr(r) \o <<0, 0, 0, 0>>>>)
    IN  with_chunks(extract_extra_fields(r._extra), riscos_loadaddr(r))

\* The extra getter.  Its result is <<exception, value>>: the exception is ""
\* and the value the bytes returned, or the getter raised struct.error.
extra(r) ==
    LET last_spark(sparks) ==
            IF sparks = {} THEN 0 ELSE CHOOSE i \in sparks : \A j \in sparks : j <= i
        rebuilt(chunks, riscos_index, loadaddr, new_chunk) ==
            IF \E i \in 1..Len(chunks) : IsRiscosChunk(chunks[i]) /\ UnpackTypeRaises(chunks[i])
            THEN <<"struct.error", <<>>>>
            ELSE IF r._nfs_encoding
            THEN <<"", build_extra_fields(
                           IF riscos_index = 0 THEN chunks
                           ELSE SubSeq(chunks, 1, riscos_index - 1) \o From(chunks, riscos_index))>>
            ELSE IF IsNegative(loadaddr) THEN <<"struct.error", <<>>>>
            ELSE <<"", build_extra_fields(
                           IF riscos_index = 0 THEN Append(chunks, new_chunk)
                           ELSE [chunks EXCEPT ![riscos_index] = new_chunk])>>
        with_chunks(chunks, loadaddr) ==
            rebuilt(chunks, last_spark({i \in 1..Len(chunks) : IsSparkChunk(chunks[i])}), loadaddr,
                    <<header_id_riscos,
                      header_id_riscos_spark \o Upto(loadaddr, 4)
                          \o riscos_execaddr(r) \o riscos_attr(r) \o <<0, 0, 0, 0>>>>)
    IN  IF ~r._riscos_present THEN <<"", r._extra>>
        ELSE with_chunks(extract_extra_fields(r._extra), riscos_loadaddr(r))

----------------------------------------------------------------------------
(* The metadata record: setters                                            *)
(*                                                                         *)
(* A setter is an operator from the record before to the record after.     *)
(* When the code raises part way, the record keeps the assignments made    *)
(* before the raise and exc names the exception.                           *)

\* the filename setter (Python 3: the value is stored as given)
set_filename(r, value) == [r EXCEPT !.filename = value]

\* the name _update_nfs_encoding stores, from the decoded unix form of the
\* RISC OS filename
_update_nfs_encoding_name(r, name) ==
    IF riscos_objtype(r) = 1
    THEN StripSuffix(build_nfs_encoding(name, Some(riscos_loadaddr(r)),
                                        Some(riscos_execaddr(r)), None),
                     <<",">> \o Hex3Spaces(IF BitAnd(r.internal_attr, internal_attr_text) # 0
                                           THEN default_filetype_text
                                           ELSE r.default_filetype))
    ELSE name \o <<"/">>

_update_nfs_encoding(r) ==
    set_filename(r, _update_nfs_encoding_name(
                        r, decode_from_riscos(riscos_to_unix(riscos_filename(r)))))

\* if self.nfs_encoding: self._update_nfs_encoding()
_update_nfs_encoding_if(r) == IF r._nfs_encoding THEN _update_nfs_encoding(r) ELSE r

\* (self._riscos_loadaddr, self._riscos_execaddr) = loadexec
set_loadexec(r, loadexec) ==
    [r EXCEPT !._riscos_loadaddr = Some(loadexec[1]), !._riscos_execaddr = Some(loadexec[2])]

set_riscos_date_time(r, value) ==
    IF Len(value) = 6
    THEN [r EXCEPT !._riscos_date_time = Some(value), !.exc = "IndexError"]
    ELSE IF NotNone(r._riscos_loadaddr) \/ NotNone(r._riscos_execaddr)
    THEN set_loadexec([r EXCEPT !._riscos_date_time = Some(value), !.date_time = Upto(value, 6)],
                      quin_to_loadexec(datetime_to_quin(value),
                                       riscos_filetype([r EXCEPT !._riscos_date_time = Some(value),
                                                                 !.date_time = Upto(value, 6)])))
    ELSE [r EXCEPT !._riscos_date_time = Some(value), !.date_time = Upto(value, 6)]

\* if dt: self.riscos_date_time = (dt.year, ...)
_update_date_time_to(r, dt) == IF NotNone(dt) THEN set_riscos_date_time(r, Val(dt)) ELSE r

_update_date_time(r) ==
    _update_date_time_to(
        r, quin_to_datetime(loadexec_to_quin(riscos_loadaddr(r), riscos_execaddr(r))))

set_riscos_loadaddr(r, value) ==
    [_update_date_time([r EXCEPT !._riscos_loadaddr = Some(value), !._riscos_filetype = None])
     EXCEPT !._riscos_present = TRUE]

set_riscos_execaddr(r, value) ==
    [_update_date_time([r EXCEPT !._riscos_execaddr = Some(value)])
     EXCEPT !._riscos_present = TRUE]

\* 0o222 and 0o444, the POSIX write and read bits
ModeWrite == 146

ModeRead == 292

set_riscos_attr(r, value) ==
    LET lo1 == IF BitAnd(value[1], 34) # 0
               THEN BitClear(r.external_attr.lo, external_attr_msdos_readonly)
               ELSE BitOr(r.external_attr.lo, external_attr_msdos_readonly)
        hi1 == IF r.external_attr.hi = 0 THEN 0
               ELSE IF BitAnd(value[1], 34) # 0 THEN BitOr(r.external_attr.hi, ModeWrite)
               ELSE BitClear(r.external_attr.hi, ModeWrite)
        hi2 == IF hi1 = 0 THEN 0
               ELSE IF BitAnd(value[1], 17) # 0 THEN BitOr(hi1, ModeRead)
               ELSE BitClear(hi1, ModeRead)
    IN  [r EXCEPT !.external_attr = [lo |-> lo1, hi |-> hi2],
                  !._riscos_attr = Some(value),
                  !._riscos_present = TRUE]

\* the riscos_objtype setter after the filename update: the directory bit, the
\* mode bits and the trailing '/'
set_riscos_objtype_attrs(r, value) ==
    LET \* mode |= (mode & 0o444) >> shift, for a mode that is not 0
        spread(hi, shift) ==
            IF hi = 0 THEN 0 ELSE BitOr(hi, BitAnd(hi, ModeRead) \div shift)
    IN  IF value = 2
        THEN [r EXCEPT !.external_attr = [lo |-> BitOr(@.lo, external_attr_msdos_directory),
                                          hi |-> spread(spread(@.hi, 4), 2)],
                       !.filename = IF EndsWith(@, <<"/">>) THEN @ ELSE @ \o <<"/">>]
        ELSE [r EXCEPT !.external_attr = [lo |-> BitClear(@.lo, external_attr_msdos_directory),
                                          hi |-> @.hi],
                       !.filename = IF EndsWith(@, <<"/">>) THEN DropLast(@, 1) ELSE @]

set_riscos_objtype(r, value) ==
    set_riscos_objtype_attrs(
        _update_nfs_encoding_if(
            [(IF value = 2
              THEN [r EXCEPT !._riscos_filetype = None,
                             !._riscos_loadaddr =
                                 IF NotNone(@)
                                 THEN Some(WithFiletype(Upto(Val(@), 4), directory_filetype_internal))
                                 ELSE @]
              ELSE r)
             EXCEPT !._riscos_objtype = Some(value), !._riscos_present = TRUE]),
        value)

\* the riscos_filetype setter, first part: the object type follows the filetype
set_riscos_filetype_objtype(r, filetype) ==
    IF filetype = directory_filetype \/ riscos_objtype(r) # 1
    THEN set_riscos_objtype(IF filetype = directory_filetype
                            THEN [r EXCEPT !._riscos_filetype = None]
                            ELSE r,
                            IF filetype = directory_filetype THEN 2 ELSE 1)
    ELSE r

\* second part: a stored load address is overridden
set_riscos_filetype_loadaddr(r, filetype) ==
    IF IsNone(r._riscos_loadaddr) THEN r
    ELSE IF ~IsTyped(Val(r._riscos_loadaddr))
    THEN [r EXCEPT !._riscos_loadaddr = Some(WithFiletype(Val(@), internal_filetype(filetype)))]
    ELSE set_loadexec(r, quin_to_loadexec(datetime_to_quin(riscos_date_time(r)), filetype))

set_riscos_filetype(r, filetype) ==
    _update_nfs_encoding_if(
        [set_riscos_filetype_loadaddr(set_riscos_filetype_objtype(r, filetype), filetype)
         EXCEPT !.internal_attr = IF filetype = default_filetype_text
                                     /\ default_filetype_text # r.default_filetype
                                  THEN BitOr(@, internal_attr_text)
                                  ELSE BitClear(@, internal_attr_text),
                !._riscos_filetype = Some(filetype),
                !._riscos_present = TRUE])

\* the riscos_filename setter after sanitise_riscos
set_riscos_filename_sanitised(r, name) ==
    IF r._nfs_encoding
    THEN _update_nfs_encoding([r EXCEPT !._riscos_filename = Some(name),
                                        !._riscos_present = TRUE])
    ELSE set_filename([r EXCEPT !._riscos_filename = Some(name),
                                !._riscos_present = TRUE],
                      decode_from_riscos(riscos_to_unix(name)))

set_riscos_filename(r, value) == set_riscos_filename_sanitised(r, sanitise_riscos(value))

\* the nfs_encoding setter when the encoding is switched off: nfs is what
\* extract_nfs_encoding returned for the filename
set_nfs_encoding_decoded(r, nfs) ==
    IF NotNone(nfs[2]) /\ WordNonZero(Val(nfs[2]))
    THEN [set_filename(r, nfs[1])
          EXCEPT !._riscos_filename = None,
                 !._riscos_loadaddr = nfs[2], !._riscos_execaddr = nfs[3],
                 !._riscos_filetype = None, !._riscos_present = TRUE]
    ELSE IF NotNone(nfs[4]) /\ Val(nfs[4]) # 0
    THEN set_riscos_filetype([set_filename(r, nfs[1])
                              EXCEPT !._riscos_filename = None,
                                     !._riscos_loadaddr = None, !._riscos_execaddr = None],
                             Val(nfs[4]))
    ELSE [set_filename(r, nfs[1]) EXCEPT !._riscos_filename = None]

set_nfs_encoding(r, value) ==
    IF r._nfs_encoding = value THEN r
    ELSE IF value THEN _update_nfs_encoding([r EXCEPT !._nfs_encoding = value])
    ELSE set_nfs_encoding_decoded([r EXCEPT !._nfs_encoding = value],
                                  extract_nfs_encoding(r.filename))

\* the three assignments the extra setter makes from the data of an ARC0 chunk
\* (a statement runs only when the one before it did not raise)
set_spark_attr(r, data) ==
    IF r.exc # "" THEN r ELSE set_riscos_attr(r, SubSeq(data, 13, 16))

set_spark_exec(r, data) ==
    IF r.exc # "" THEN r
    ELSE set_spark_attr(set_riscos_execaddr(r, SubSeq(data, 9, 12)), data)

set_spark(r, data) ==
    set_spark_exec(set_riscos_loadaddr(r, IF riscos_objtype(r) = 2
                                          THEN <<data[5], 253, 255, 255>>
                                          ELSE SubSeq(data, 5, 8)),
                   data)

\* the for loop of the extra setter, from chunk i on
RECURSIVE extra_chunks(_, _, _)
extra_chunks(r, chunks, i) ==
    IF r.exc # "" \/ i > Len(chunks) THEN r
    ELSE IF ~IsRiscosChunk(chunks[i]) THEN extra_chunks(r, chunks, i + 1)
    ELSE IF UnpackTypeRaises(chunks[i]) THEN [r EXCEPT !.exc = "struct.error"]
    ELSE IF ~IsSparkChunk(chunks[i]) THEN extra_chunks(r, chunks, i + 1)
    ELSE IF Len(chunks[i][2]) # 20 THEN [r EXCEPT !.exc = "struct.error"]
    ELSE extra_chunks(set_spark(r, chunks[i][2]), chunks, i + 1)

set_extra(r, value) ==
    extra_chunks([r EXCEPT !._extra = value], extract_extra_fields(value), 1)

----------------------------------------------------------------------------
(* Construction and extraction *)

\* the state zipfile.ZipInfo.__init__ leaves, with the class defaults of
\* ZipInfoRISCOS for the fields it adds
ZipInfo(filename, date_time) ==
    [filename         |-> filename,
     date_time        |-> date_time,
     internal_attr    |-> 0,
     external_attr    |-> [lo |-> 0, hi |-> 0],
     _extra           |-> <<>>,
     _riscos_filename |-> None,
     _riscos_date_time |-> None,
     _riscos_objtype  |-> None,
     _riscos_loadaddr |-> None,
     _riscos_execaddr |-> None,
     _riscos_filetype |-> None,
     _riscos_attr     |-> None,
     _riscos_present  |-> FALSE,
     _nfs_encoding    |-> FALSE,
     default_filetype |-> default_filetype_class,
     exc              |-> ""]

\* filename.encode('cp437').decode('latin-1') on one character: e-acute ("<E9>") is
\* byte 0x82 in cp437, which latin-1 decodes to the control character U+0082
cp437_to_latin1(c) == IF c = "<E9>" THEN "<82>" ELSE c

\* __init__(filename, date_time, nfs_encoding=) without a zipinfo
ZipInfoRISCOS(filename, date_time, nfs_encoding) ==
    [ZipInfo(filename, date_time) EXCEPT !._nfs_encoding = nfs_encoding]

\* __init__(zipinfo=, nfs_encoding=, zipinfo_fromzip=): z is a zipfile.ZipInfo,
\* a record of filename, date_time, internal_attr, external_attr, extra and utf8
\* (the UTF-8 bit of flag_bits)
ZipInfoRISCOS_zipinfo(z, nfs_encoding, zipinfo_fromzip) ==
    LET name == IF z.utf8 \/ ~zipinfo_fromzip THEN z.filename
                ELSE MapSeq(z.filename, cp437_to_latin1)
        r1 == [ZipInfo(name, z.date_time) EXCEPT !.internal_attr = z.internal_attr,
                                                 !.external_attr = z.external_attr]
        built(r2) ==
            IF r2.exc # "" THEN r2
            ELSE [(IF EndsWith(r2.filename, <<"/">>)
                   THEN [r2 EXCEPT !.external_attr.lo = BitOr(@, external_attr_msdos_directory)]
                   ELSE r2)
                  EXCEPT !._nfs_encoding = nfs_encoding]
    IN  built(set_extra(r1, z.extra))

\* RISCOSZipFile.extract up to os.path.join(path, zi.filename): the record after
\* the forced switch to NFS encoding; its filename is the extraction target
extract(member) == set_nfs_encoding(member, TRUE)

----------------------------------------------------------------------------
(* Inputs of the operations *)

\* number of operations applied to one record
MaxOps == 3

\* longest input of sanitise_unix, over the characters a . /
MaxUnixLen == 8

\* longest input of sanitise_riscos, over the characters a . ^ $ * :
MaxRiscosLen == 4

Name_f == <<"f">>

Name_f_ff9 == <<"f", ",", "f", "f", "9">>

Name_f_loadexec ==
    <<"f", ",", "1", "2", "3", "4", "5", "6", "7", "8", ",", "8", "7", "6", "5", "4", "3", "2", "1">>

Name_dir == <<"d", "/">>

Name_c_f == <<"c", "/", "f">>

Name_escape == <<"a", "/", ".", ".", "/", ".", ".", "/", "c">>

Name_abs == <<"/", "e">>

Name_cp437 == <<"<E9>">>

Names == {Name_f, Name_f_ff9, Name_f_loadexec, Name_dir, Name_c_f, Name_escape}

\* member names as an archive may hold them
MemberNames == {Name_f, Name_dir, Name_escape, Name_abs, Name_cp437}

RiscosNames == {<<"f">>, <<"d", ".", "f", "/", "c">>, <<"$", ".", "a", " ", "b">>}

\* the default date_time of the constructor
DefaultDate == <<1980, 1, 1, 0, 0, 0>>

Dates == {DefaultDate, <<2020, 5, 5, 12, 24, 56>>}

\* 7-element RISC OS date tuples, and a 6-element one
RiscosDates == {<<2020, 5, 5, 12, 24, 56, 0>>, <<1999, 12, 31, 23, 59, 58, 500>>,
                <<2020, 5, 5, 12, 24, 56>>}

\* 0xfffffd58, 0xfffff958: typed; 0x12345678: untyped
Loads == {<<88, 253, 255, 255>>, <<88, 249, 255, 255>>, <<120, 86, 52, 18>>}

\* 0x6be0ff60, 0x87654321
Execs == {<<96, 255, 224, 107>>, <<33, 67, 101, 135>>}

\* 0x33 (read/write), 0x11 (read only)
Attrs == {<<51, 0, 0, 0>>, <<17, 0, 0, 0>>}

\* 0xff9, 0xfff, 0x1000
Filetypes == {4089, 4095, 4096}

\* 0, the DOS directory bit, and the POSIX mode 0o644 with the DOS read-only bit
ExternalAttrs == {[lo |-> 0, hi |-> 0], [lo |-> 16, hi |-> 0], [lo |-> 1, hi |-> 420]}

\* struct.pack('<HH', 0x4341, 20) + b'ARC0' + load + exec + attr + reserved
ARC0(loadaddr, execaddr, attr) ==
    <<65, 67, 20, 0>> \o header_id_riscos_spark \o loadaddr \o execaddr \o attr \o <<0, 0, 0, 0>>

\* an extended-timestamp chunk (header id 0x5455) of 5 bytes
Extra_other == <<85, 84, 5, 0, 1, 2, 3, 4, 5>>

Extra_typed == ARC0(<<88, 253, 255, 255>>, <<96, 255, 224, 107>>, <<51, 0, 0, 0>>)

Extra_untyped == ARC0(<<120, 86, 52, 18>>, <<33, 67, 101, 135>>, <<17, 0, 0, 0>>)

Extra_two == Extra_typed \o ARC0(<<88, 249, 255, 255>>, <<146, 255, 224, 107>>, <<17, 0, 0, 0>>)

\* a 0x4341 chunk too short to hold a signature
Extra_short == <<65, 67, 2, 0, 65, 82>>

\* an ARC0 chunk whose payload is 4 bytes, not 16
Extra_badlen == <<65, 67, 8, 0>> \o header_id_riscos_spark \o <<1, 2, 3, 4>>

\* a chunk followed by a header with no data
Extra_trailing == <<85, 84, 1, 0, 7, 52, 18, 0, 0>>

Extras == {<<>>, Extra_other, Extra_typed, Extra_other \o Extra_untyped, Extra_two,
           Extra_short, Extra_badlen, Extra_trailing}

\* zipfile.ZipInfo objects as the archive's own infolist() returns them
ZipInfos ==
    {[filename |-> n, date_time |-> <<2020, 5, 5, 12, 24, 56>>, internal_attr |-> 0,
      external_attr |-> [lo |-> 0, hi |-> 0], extra |-> e, utf8 |-> FALSE] :
        n \in MemberNames, e \in {<<>>, Extra_typed, Extra_two, Extra_badlen}}

\* stat.S_ISDIR(st_mode): the file-type bits of the mode are 0o040000
S_ISDIR(st_mode) == (st_mode \div 4096) % 16 = 4

\* ZipInfoRISCOS.from_file(filename, arcname, nfs_encoding) for a file whose
\* os.stat gives st_mode and whose st_mtime is date_time; arcname is already
\* normalised and relative
from_file(arcname, st_mode, date_time, nfs_encoding) ==
    set_nfs_encoding(
        [ZipInfoRISCOS(IF S_ISDIR(st_mode) THEN arcname \o <<"/">> ELSE arcname, date_time, TRUE)
         EXCEPT !.external_attr = [lo |-> IF S_ISDIR(st_mode) THEN external_attr_msdos_directory
                                          ELSE 0,
                                   hi |-> st_mode % 65536]],
        nfs_encoding)

\* the record RISCOSZipFile.add_file and add_dir hand to writestr
add_to_zipfile(arcname, st_mode, date_time) ==
    set_nfs_encoding(from_file(arcname, st_mode, date_time, TRUE), FALSE)

\* RISCOSZipFile.infolist() over the members zs that the archive's own
\* infolist() returns: the list of the records built, unless building one
\* raised, which ends the call
infolist(zs) ==
    LET built == [i \in 1..Len(zs) |-> ZipInfoRISCOS_zipinfo(zs[i], FALSE, TRUE)]
        raised == {i \in 1..Len(zs) : built[i].exc # ""}
    IN  IF raised = {} THEN [exc |-> "", list |-> built]
        ELSE [exc |-> built[CHOOSE i \in raised : \A j \in raised : i <= j].exc, list |-> <<>>]

\* RISCOSZipFile.__init__(zip_filename, mode) on an archive that holds members:
\* zh is the zipfile.ZipFile it opens (None after close), container the state
\* of that ZipFile object
RISCOSZipFile(mode, members) ==
    [zh         |-> Some("ZipFile"),
     container  |-> "open",
     mode       |-> mode,
     members    |-> members,
     _fileslist |-> None]

\* some chunk of the extra value is a RISC OS chunk with the ARC0 signature
HasARC0(value) ==
    \E i \in 1..Len(extract_extra_fields(value)) : IsSparkChunk(extract_extra_fields(value)[i])

----------------------------------------------------------------------------
(* The record as a state machine: one action per operation of a caller *)

Init ==
    /\ zi \in {ZipInfoRISCOS(n, DefaultDate, nfs) : n \in Names, nfs \in BOOLEAN}
    /\ exc = ""
    /\ nops = 0
    /\ setter_ran = FALSE
    /\ arc0_assigned = FALSE
    /\ assigned_extra = <<>>
    /\ last_op = "__init__"
    /\ extract_target = None
    /\ rzf = RISCOSZipFile("r", <<>>)
    /\ in_with = FALSE
    /\ san_in = <<>>
    /\ san_out = None

\* the operation op left the record r (and raised r.exc, if not "")
Applied(r, op) ==
    /\ nops < MaxOps
    /\ zi' = [r EXCEPT !.exc = ""]
    /\ exc' = r.exc
    /\ nops' = nops + 1
    /\ last_op' = op
    /\ UNCHANGED <<san_in, san_out, rzf, in_with>>

\* zi.filename = value
AssignFilename ==
    \E value \in Names :
        /\ Applied(set_filename(zi, value), "filename")
        /\ UNCHANGED <<setter_ran, arc0_assigned, assigned_extra, extract_target>>

\* zi.date_time = value
AssignDateTime ==
    \E value \in Dates :
        /\ Applied([zi EXCEPT !.date_time = value], "date_time")
        /\ UNCHANGED <<setter_ran, arc0_assigned, assigned_extra, extract_target>>

\* zi.internal_attr = value
AssignInternalAttr ==
    \E value \in {0, internal_attr_text} :
        /\ Applied([zi EXCEPT !.internal_attr = value], "internal_attr")
        /\ UNCHANGED <<setter_ran, arc0_assigned, assigned_extra, extract_target>>

\* zi.external_attr = value
AssignExternalAttr ==
    \E value \in ExternalAttrs :
        /\ Applied([zi EXCEPT !.external_attr = value], "external_attr")
        /\ UNCHANGED <<setter_ran, arc0_assigned, assigned_extra, extract_target>>

\* zi.extra = value
AssignExtra ==
    \E value \in Extras :
        /\ Applied(set_extra(zi, value), "extra")
        /\ arc0_assigned' = (arc0_assigned \/ HasARC0(value))
        /\ assigned_extra' = value
        /\ UNCHANGED <<setter_ran, extract_target>>

\* zi.riscos_filename = value
SetRiscosFilename ==
    \E value \in RiscosNames :
        /\ Applied(set_riscos_filename(zi, value), "riscos_filename")
        /\ setter_ran' = TRUE
        /\ UNCHANGED <<arc0_assigned, assigned_extra, extract_target>>

\* zi.riscos_date_time = value
SetRiscosDateTime ==
    \E value \in RiscosDates :
        /\ Applied(set_riscos_date_time(zi, value), "riscos_date_time")
        /\ setter_ran' = TRUE
        /\ UNCHANGED <<arc0_assigned, assigned_extra, extract_target>>

\* zi.riscos_loadaddr = value
SetRiscosLoadaddr ==
    \E value \in Loads :
        /\ Applied(set_riscos_loadaddr(zi, value), "riscos_loadaddr")
        /\ setter_ran' = TRUE
        /\ UNCHANGED <<arc0_assigned, assigned_extra, extract_target>>

\* zi.riscos_execaddr = value
SetRiscosExecaddr ==
    \E value \in Execs :
        /\ Applied(set_riscos_execaddr(zi, value), "riscos_execaddr")
        /\ setter_ran' = TRUE
        /\ UNCHANGED <<arc0_assigned, assigned_extra, extract_target>>

\* zi.riscos_attr = value
SetRiscosAttr ==
    \E value \in Attrs :
        /\ Applied(set_riscos_attr(zi, value), "riscos_attr")
        /\ setter_ran' = TRUE
        /\ UNCHANGED <<arc0_assigned, assigned_extra, extract_target>>

\* zi.riscos_filetype = value
SetRiscosFiletype ==
    \E value \in Filetypes :
        /\ Applied(set_riscos_filetype(zi, value), "riscos_filetype")
        /\ setter_ran' = TRUE
        /\ UNCHANGED <<arc0_assigned, assigned_extra, extract_target>>

\* zi.riscos_objtype = value
SetRiscosObjtype ==
    \E value \in {1, 2} :
        /\ Applied(set_riscos_objtype(zi, value), "riscos_objtype")
        /\ setter_ran' = TRUE
        /\ UNCHANGED <<arc0_assigned, assigned_extra, extract_target>>

\* zi.nfs_encoding = value
SetNfsEncoding ==
    \E value \in BOOLEAN :
        /\ Applied(set_nfs_encoding(zi, value), "nfs_encoding")
        /\ UNCHANGED <<setter_ran, arc0_assigned, assigned_extra, extract_target>>

\* RISCOSZipFile.infolist(): the record is one the facade builds from a member
\* of the archive, in place of one built from a name; nothing is built when the
\* constructor raises
Infolist ==
    \E z \in ZipInfos : \E r \in {ZipInfoRISCOS_zipinfo(z, FALSE, TRUE)} :
        /\ nops = 0
        /\ Applied(IF r.exc = "" THEN r ELSE [zi EXCEPT !.exc = r.exc], "infolist")
        /\ arc0_assigned' = IF r.exc = "" THEN HasARC0(z.extra) ELSE arc0_assigned
        /\ assigned_extra' = IF r.exc = "" THEN z.extra ELSE assigned_extra
        /\ UNCHANGED <<setter_ran, extract_target>>

\* RISCOSZipFile.extract(member) with the record itself, or with the name of
\* the member it was built from
Extract ==
    \E r \in {extract(zi)} :
        /\ Applied(r, "extract")
        /\ extract_target' = Some(r.filename)
        /\ UNCHANGED <<setter_ran, arc0_assigned, assigned_extra>>

\* RISCOSZipFile.extract(member) with a plain zipfile.ZipInfo: the record is
\* built from it with the constructor's defaults; nothing is extracted when
\* the constructor raises
ExtractZipInfo ==
    \E z \in ZipInfos : \E built \in {ZipInfoRISCOS_zipinfo(z, TRUE, TRUE)} :
        \E r \in {IF built.exc = "" THEN extract(built) ELSE built} :
            /\ nops = 0
            /\ Applied(IF built.exc = "" THEN r ELSE [zi EXCEPT !.exc = r.exc], "extract_zipinfo")
            /\ extract_target' = IF built.exc = "" THEN Some(r.filename) ELSE extract_target
            /\ arc0_assigned' = IF built.exc = "" THEN HasARC0(z.extra) ELSE arc0_assigned
            /\ assigned_extra' = IF built.exc = "" THEN z.extra ELSE assigned_extra
            /\ UNCHANGED setter_ran

Next ==
    \/ AssignFilename
    \/ AssignDateTime
    \/ AssignInternalAttr
    \/ AssignExternalAttr
    \/ AssignExtra
    \/ SetRiscosFilename
    \/ SetRiscosDateTime
    \/ SetRiscosLoadaddr
    \/ SetRiscosExecaddr
    \/ SetRiscosAttr
    \/ SetRiscosFiletype
    \/ SetRiscosObjtype
    \/ SetNfsEncoding
    \/ Infolist
    \/ Extract
    \/ ExtractZipInfo

Spec == Init /\ [][Next]_vars

----------------------------------------------------------------------------
(* The sanitisers as a state machine: an input is drawn, then sanitised *)

UnixChars == {"a", ".", "/"}

RiscosChars == {"a", ".", "^", "$", "*", ":"}

UnixInputs == UNION {[1..n -> UnixChars] : n \in 0..MaxUnixLen}

RiscosInputs == UNION {[1..n -> RiscosChars] : n \in 0..MaxRiscosLen}

InitSan ==
    /\ san_in \in UnixInputs \cup RiscosInputs
    /\ san_out = None
    /\ last_op = "input"
    /\ zi = ZipInfoRISCOS(Name_f, DefaultDate, TRUE)
    /\ exc = ""
    /\ nops = 0
    /\ setter_ran = FALSE
    /\ arc0_assigned = FALSE
    /\ assigned_extra = <<>>
    /\ extract_target = None
    /\ rzf = RISCOSZipFile("r", <<>>)
    /\ in_with = FALSE

\* ZipInfoRISCOS.sanitise_unix(san_in)
SanitiseUnix ==
    /\ last_op = "input"
    /\ san_in \in UnixInputs
    /\ san_out' = Some(sanitise_unix(san_in))
    /\ last_op' = "sanitise_unix"
    /\ UNCHANGED <<zi, exc, nops, setter_ran, arc0_assigned, assigned_extra, extract_target, san_in,
                   rzf, in_with>>

\* ZipInfoRISCOS.sanitise_riscos(san_in)
SanitiseRiscos ==
    /\ last_op = "input"
    /\ san_in \in RiscosInputs
    /\ san_out' = Some(sanitise_riscos(san_in))
    /\ last_op' = "sanitise_riscos"
    /\ UNCHANGED <<zi, exc, nops, setter_ran, arc0_assigned, assigned_extra, extract_target, san_in,
                   rzf, in_with>>

NextSan ==
    \/ SanitiseUnix
    \/ SanitiseRiscos

SpecSan == InitSan /\ [][NextSan]_vars

----------------------------------------------------------------------------
(* The codecs as a state machine: the arguments of a static method or      *)
(* module function, or the base properties of a fresh record and the value *)
(* one setter is given, are drawn (san_in names the function and holds     *)
(* them), then the calls are made one at a time and san_out collects the   *)
(* results                                                                 *)

\* most chunks in an extra value drawn for the extra-field codec
MaxChunks == 3

\* the header ids 0x4341 and 0x5455
CodecHeaderIds == {<<65, 67>>, <<85, 84>>}

\* chunk payloads of 0, 1 and 2 bytes
CodecPayloads == {<<>>, <<7>>, <<7, 8>>}

\* one chunk as it is laid out: header id, payload length, payload
WellFormedChunks ==
    {h \o <<Len(p), 0>> \o p : h \in CodecHeaderIds, p \in CodecPayloads}

RECURSIVE Concat(_)
Concat(ss) == IF ss = <<>> THEN <<>> ELSE ss[1] \o Concat(Tail(ss))

\* concatenations of up to MaxChunks chunks
WellFormedExtras ==
    {Concat(cs) : cs \in UNION {[1..n -> WellFormedChunks] : n \in 0..MaxChunks}}

\* 40-bit quins, least significant byte first
Quins == [1..5 -> {0, 255}] \cup {<<96, 255, 224, 107, 88>>}

\* 0x000, 0x001, 0x0ff, 0x100, 0xff9, 0xffd, 0xfff and 0x1000
QuinFiletypes == {0, 1, 255, 256, 4089, 4093, 4095, 4096}

ExtraFieldsInputs == {[fn |-> "extra_fields", arg |-> e] : e \in WellFormedExtras}

LoadexecInputs == {[fn |-> "loadexec", arg |-> <<q, f>>] : q \in Quins, f \in QuinFiletypes}

\* base names: plain, in a directory, empty, and with one or two NFS suffixes
NfsBases ==
    {<<>>, Name_f, Name_c_f, Name_f_ff9, Name_f_loadexec, Name_f_ff9 \o <<",", "f", "f", "a">>}

\* trailing text: ,ff9 ,fft ,FF9 ,ff ,0ff9 and three of the form ,x,y, where the
\* second has a typed load address and the third one digit that is not hex
NfsSuffixes ==
    {<<>>, <<",", "f", "f", "9">>, <<",", "f", "f", "t">>, <<",", "F", "F", "9">>,
     <<",", "f", "f">>, <<",", "0", "f", "f", "9">>,
     <<",">> \o Hex8(<<120, 86, 52, 18>>) \o <<",">> \o Hex8(<<33, 67, 101, 135>>),
     <<",">> \o Hex8(<<88, 253, 255, 255>>) \o <<",">> \o Hex8(<<96, 255, 224, 107>>),
     <<",">> \o Hex8(<<120, 86, 52, 18>>) \o <<",", "g">> \o Tail(Hex8(<<33, 67, 101, 135>>))}

\* filetypes that `{:03x}` formats in three digits: 0x012, 0xff9
NfsFiletypes == {18, 4089}

BuildNfsInputs ==
    {[fn |-> "build_nfs", arg |-> <<b, l, e, t>>] :
        b \in NfsBases,
        l \in {None} \cup {Some(w) : w \in Loads},
        e \in {None} \cup {Some(w) : w \in Execs},
        t \in {None} \cup {Some(f) : f \in NfsFiletypes}}

ExtractNfsInputs ==
    {[fn |-> "extract_nfs", arg |-> b \o s] : b \in NfsBases, s \in NfsSuffixes}

\* POSIX modes: none, 0o111, 0o222, 0o444, 0o644, 0o400, 0o002, 0o100644,
\* 0o040755, 0o100000 and 0o177777
AttrModes == {0, 73, 146, 292, 420, 256, 2, 33188, 16877, 32768, 65535}

\* low halves of external_attr: nothing, read-only, directory, both, archive
AttrDosBits == {0, 1, 16, 17, 32}

RiscosAttrInputs ==
    {[fn |-> "riscos_attr", arg |-> [lo |-> lo, hi |-> hi]] : lo \in AttrDosBits, hi \in AttrModes}

\* RISC OS attributes: none, 0x11, 0x22, 0x33, owner read, owner write, public
\* read, public write
SetAttrValues == {<<v, 0, 0, 0>> : v \in {0, 17, 34, 51, 1, 2, 16, 32}}

SetRiscosAttrInputs ==
    {[fn |-> "set_riscos_attr", arg |-> [lo |-> lo, hi |-> hi, value |-> v]] :
         lo \in AttrDosBits, hi \in AttrModes, v \in SetAttrValues}

\* members of an archive: names without and with an NFS suffix, extra fields
\* without and with one ARC0 chunk
ReadMemberInputs ==
    {[fn |-> "read_member",
      arg |-> [filename |-> n, date_time |-> <<2020, 5, 5, 12, 24, 56>>, internal_attr |-> 0,
               external_attr |-> [lo |-> 0, hi |-> 0], extra |-> e, utf8 |-> FALSE]] :
        n \in {Name_f, Name_f_ff9, Name_f_loadexec, Name_c_f},
        e \in {<<>>, Extra_other, Extra_typed, Extra_untyped, Extra_other \o Extra_untyped}}

\* name and DOS attributes of a directory member: the name ends in / or the
\* directory bit is set, or both
DirectoryMembers ==
    {m \in [filename : {Name_dir, <<"d">>}, lo : {0, external_attr_msdos_directory}] :
         EndsWith(m.filename, <<"/">>) \/ m.lo = external_attr_msdos_directory}

\* directory members of an archive with an ARC0 chunk whose load address is a
\* bare timestamp (0x00000058), typed 0xffd or typed 0xfff
ReadDirectoryInputs ==
    {[fn |-> "read_directory",
      arg |-> [filename |-> m.filename, date_time |-> <<2020, 5, 5, 12, 24, 56>>,
               internal_attr |-> 0, external_attr |-> [lo |-> m.lo, hi |-> 0],
               extra |-> ARC0(load, <<96, 255, 224, 107>>, <<51, 0, 0, 0>>), utf8 |-> FALSE,
               nfs_encoding |-> nfs]] :
         m \in DirectoryMembers,
         load \in {<<88, 0, 0, 0>>, <<88, 253, 255, 255>>, <<88, 255, 255, 255>>},
         nfs \in BOOLEAN}

\* filenames with an NFS suffix, with what the suffix encodes: the filetypes
\* 0x000, 0x0fd, 0xff9, 0xffd and 0xfff, and the load/exec pairs
\* 0x12345678/0x87654321 and 0x00000000/0x87654321
ToggleNfsInputs ==
    {[fn |-> "toggle_nfs",
      arg |-> [filename |-> base \o <<",">> \o Hex3(t), base |-> base,
               loadexec |-> None]] :
         base \in {Name_f, Name_c_f}, t \in {0, 253, 4089, 4093, 4095}}
    \cup
    {[fn |-> "toggle_nfs",
      arg |-> [filename |-> base \o <<",">> \o Hex8(l) \o <<",">> \o Hex8(<<33, 67, 101, 135>>),
               base |-> base, loadexec |-> Some(<<l, <<33, 67, 101, 135>>>>)]] :
         base \in {Name_f, Name_c_f}, l \in {<<120, 86, 52, 18>>, <<0, 0, 0, 0>>}}

\* most members in an archive drawn for infolist()
MaxMembers == 2

\* members whose extra field is empty, sound, or corrupted in two ways
ArchiveMembers ==
    {[filename |-> Name_f, date_time |-> <<2020, 5, 5, 12, 24, 56>>, internal_attr |-> 0,
      external_attr |-> [lo |-> 0, hi |-> 0], extra |-> e, utf8 |-> FALSE] :
        e \in {<<>>, Extra_typed, Extra_short, Extra_badlen}}

InfolistInputs ==
    {[fn |-> "infolist", arg |-> zs] :
        zs \in UNION {[1..n -> ArchiveMembers] : n \in 1..MaxMembers}}

\* st_mode of a file (0o100644, 0o100444) and of a directory (0o040755)
StatModes == {33188, 33060, 16877}

\* objects on disc: names without and with an NFS suffix, files and directories
AddInputs ==
    {[fn |-> "add", arg |-> [arcname |-> n, st_mode |-> m, date_time |-> <<2020, 5, 5, 12, 24, 56>>]] :
        n \in {Name_f, Name_f_ff9, Name_f_loadexec, Name_c_f}, m \in StatModes}

CodecInputs ==
    ExtraFieldsInputs \cup LoadexecInputs \cup BuildNfsInputs \cup ExtractNfsInputs
    \cup RiscosAttrInputs \cup ReadMemberInputs \cup InfolistInputs \cup AddInputs
    \cup SetRiscosAttrInputs \cup ReadDirectoryInputs \cup ToggleNfsInputs

InitCodec ==
    /\ san_in \in CodecInputs
    /\ san_out = <<>>
    /\ last_op = "input"
    /\ zi = ZipInfoRISCOS(Name_f, DefaultDate, TRUE)
    /\ exc = ""
    /\ nops = 0
    /\ setter_ran = FALSE
    /\ arc0_assigned = FALSE
    /\ assigned_extra = <<>>
    /\ extract_target = None
    /\ rzf = RISCOSZipFile("r", <<>>)
    /\ in_with = FALSE

\* the call named op was made after the call named after, and returned result
Called(after, op, result) ==
    /\ last_op = after
    /\ san_out' = Append(san_out, result)
    /\ last_op' = op
    /\ UNCHANGED <<zi, exc, nops, setter_ran, arc0_assigned, assigned_extra, extract_target, san_in,
                   rzf, in_with>>

\* chunks = ZipInfoRISCOS.extract_extra_fields(extra)
ExtractExtraFields ==
    /\ san_in.fn = "extra_fields"
    /\ Called("input", "extract_extra_fields", extract_extra_fields(san_in.arg))

\* ZipInfoRISCOS.build_extra_fields(chunks)
BuildExtraFields ==
    /\ san_in.fn = "extra_fields"
    /\ Called("extract_extra_fields", "build_extra_fields", build_extra_fields(san_out[1]))

\* loadexec = quin_to_loadexec(quin, filetype)
QuinToLoadexec ==
    /\ san_in.fn = "loadexec"
    /\ Called("input", "quin_to_loadexec", quin_to_loadexec(san_in.arg[1], san_in.arg[2]))

\* loadexec_to_quin(loadexec)
LoadexecToQuin ==
    /\ san_in.fn = "loadexec"
    /\ Called("quin_to_loadexec", "loadexec_to_quin",
              loadexec_to_quin(san_out[1][1], san_out[1][2]))

\* n = ZipInfoRISCOS.build_nfs_encoding(name, loadaddr, execaddr, filetype)
BuildNfsEncoding ==
    /\ san_in.fn = "build_nfs"
    /\ Called("input", "build_nfs_encoding",
              build_nfs_encoding(san_in.arg[1], san_in.arg[2], san_in.arg[3], san_in.arg[4]))

\* (b, l, e, t) = ZipInfoRISCOS.extract_nfs_encoding(n)
ExtractBuiltNfsEncoding ==
    /\ san_in.fn = "build_nfs"
    /\ Called("build_nfs_encoding", "extract_nfs_encoding", extract_nfs_encoding(san_out[1]))

\* ZipInfoRISCOS.build_nfs_encoding(b, l, e, t)
RebuildNfsEncoding ==
    /\ san_in.fn = "build_nfs"
    /\ Called("extract_nfs_encoding", "rebuild_nfs_encoding",
              build_nfs_encoding(san_out[2][1], san_out[2][2], san_out[2][3], san_out[2][4]))

\* ZipInfoRISCOS.extract_nfs_encoding(name)
ExtractNfsEncoding ==
    /\ san_in.fn = "extract_nfs"
    /\ Called("input", "extract_nfs_encoding", extract_nfs_encoding(san_in.arg))

\* zi = ZipInfoRISCOS(filename); zi.external_attr = value; zi.riscos_attr
ReadRiscosAttr ==
    /\ san_in.fn = "riscos_attr"
    /\ Called("input", "get_riscos_attr",
              riscos_attr([ZipInfoRISCOS(Name_f, DefaultDate, FALSE)
                           EXCEPT !.external_attr = san_in.arg]))

\* zi = ZipInfoRISCOS(filename); zi.external_attr = ...; zi.riscos_attr = value
AssignRiscosAttr ==
    /\ san_in.fn = "set_riscos_attr"
    /\ Called("input", "set_riscos_attr",
              set_riscos_attr([ZipInfoRISCOS(Name_f, DefaultDate, FALSE)
                               EXCEPT !.external_attr = [lo |-> san_in.arg.lo,
                                                         hi |-> san_in.arg.hi]],
                              san_in.arg.value))

\* ZipInfoRISCOS(zipinfo=member, nfs_encoding=True)
ReadMember ==
    /\ san_in.fn = "read_member"
    /\ Called("input", "read_member", ZipInfoRISCOS_zipinfo(san_in.arg, TRUE, TRUE))

\* ZipInfoRISCOS(zipinfo=member, nfs_encoding=...) for a directory member
ReadDirectory ==
    /\ san_in.fn = "read_directory"
    /\ Called("input", "read_directory",
              ZipInfoRISCOS_zipinfo(san_in.arg, san_in.arg.nfs_encoding, TRUE))

\* zi = ZipInfoRISCOS(filename, nfs_encoding=True); zi.nfs_encoding = False
ToggleNfsEncoding ==
    /\ san_in.fn = "toggle_nfs"
    /\ Called("input", "toggle_nfs",
              set_nfs_encoding(ZipInfoRISCOS(san_in.arg.filename, DefaultDate, TRUE), FALSE))

\* RISCOSZipFile.infolist() on an archive with these members
InfolistArchive ==
    /\ san_in.fn = "infolist"
    /\ Called("input", "infolist", infolist(san_in.arg))

\* RISCOSZipFile.add_file(filename)
AddFile ==
    /\ san_in.fn = "add"
    /\ ~S_ISDIR(san_in.arg.st_mode)
    /\ Called("input", "add_file",
              add_to_zipfile(san_in.arg.arcname, san_in.arg.st_mode, san_in.arg.date_time))

\* RISCOSZipFile.add_dir(filename), up to the writestr of the directory itself
AddDir ==
    /\ san_in.fn = "add"
    /\ S_ISDIR(san_in.arg.st_mode)
    /\ Called("input", "add_dir",
              add_to_zipfile(san_in.arg.arcname, san_in.arg.st_mode, san_in.arg.date_time))

NextCodec ==
    \/ ExtractExtraFields
    \/ BuildExtraFields
    \/ QuinToLoadexec
    \/ LoadexecToQuin
    \/ BuildNfsEncoding
    \/ ExtractBuiltNfsEncoding
    \/ RebuildNfsEncoding
    \/ ExtractNfsEncoding
    \/ ReadRiscosAttr
    \/ AssignRiscosAttr
    \/ ReadMember
    \/ ReadDirectory
    \/ ToggleNfsEncoding
    \/ InfolistArchive
    \/ AddFile
    \/ AddDir

SpecCodec == InitCodec /\ [][NextCodec]_vars

----------------------------------------------------------------------------
(* A caller that sets the load and exec addresses of a new record and then *)
(* assigns base properties: the operations are those of the record's state *)
(* machine, in that order                                                  *)

\* zi.riscos_loadaddr = value, on the new record
FirstSetRiscosLoadaddr ==
    /\ nops = 0
    /\ SetRiscosLoadaddr

\* zi.riscos_execaddr = value, next
ThenSetRiscosExecaddr ==
    /\ nops = 1
    /\ SetRiscosExecaddr

\* both are set: the assignments to base properties that follow
BothSet == nops >= 2

LaterAssignFilename == BothSet /\ AssignFilename

LaterAssignDateTime == BothSet /\ AssignDateTime

LaterAssignInternalAttr == BothSet /\ AssignInternalAttr

LaterAssignExternalAttr == BothSet /\ AssignExternalAttr

NextFrame ==
    \/ FirstSetRiscosLoadaddr
    \/ ThenSetRiscosExecaddr
    \/ LaterAssignFilename
    \/ LaterAssignDateTime
    \/ LaterAssignInternalAttr
    \/ LaterAssignExternalAttr

SpecFrame == Init /\ [][NextFrame]_vars

----------------------------------------------------------------------------
(* The archive facade as a state machine: an archive is opened for reading *)
(* or for writing, with or without a with-block, and the caller adds       *)
(* members, lists them and closes it                                       *)

\* most members a caller adds to one archive
MaxAdded == 2

\* most calls of close() a caller makes on one archive
MaxCloses == 3

\* names of the members of an archive
FacadeNames == {Name_f, Name_f_ff9, Name_dir}

\* the members of an archive opened for reading
FacadeArchives == UNION {[1..n -> FacadeNames] : n \in 0..MaxMembers}

InitFacade ==
    /\ rzf \in {RISCOSZipFile("r", ms) : ms \in FacadeArchives} \cup {RISCOSZipFile("w", <<>>)}
    /\ in_with \in BOOLEAN
    /\ nops = 0
    /\ exc = ""
    /\ last_op = "__init__"
    /\ zi = ZipInfoRISCOS(Name_f, DefaultDate, TRUE)
    /\ setter_ran = FALSE
    /\ arc0_assigned = FALSE
    /\ assigned_extra = <<>>
    /\ extract_target = None
    /\ san_in = <<>>
    /\ san_out = None

\* the method named op left the facade f and raised raised ("" when it returned)
FacadeCalled(f, op, raised) ==
    /\ rzf' = f
    /\ exc' = raised
    /\ last_op' = op
    /\ UNCHANGED <<zi, setter_ran, arc0_assigned, assigned_extra, extract_target, san_in,
                   san_out>>

\* RISCOSZipFile.close(): self.zh.close() is an attribute of None once zh is None
close(f) ==
    IF IsNone(f.zh) THEN [f |-> f, exc |-> "AttributeError"]
    ELSE [f |-> [f EXCEPT !.container = "closed", !.zh = None], exc |-> ""]

\* rzf.close(), called by the caller
Close ==
    /\ nops < MaxCloses
    /\ FacadeCalled(close(rzf).f, "close", close(rzf).exc)
    /\ nops' = nops + 1
    /\ UNCHANGED in_with

\* leaving the with-block: __exit__ calls self.close()
Exit ==
    /\ in_with
    /\ FacadeCalled(close(rzf).f, "__exit__", close(rzf).exc)
    /\ in_with' = FALSE
    /\ UNCHANGED nops

\* RISCOSZipFile.add_file / add_dir: the record is built, then handed to
\* self.zh.writestr, which appends the member to an archive opened for writing
writestr(f, name) ==
    IF IsNone(f.zh) THEN [f |-> f, exc |-> "AttributeError"]
    ELSE IF f.mode = "r" THEN [f |-> f, exc |-> "ValueError"]
    ELSE [f |-> [f EXCEPT !.members = Append(@, name)], exc |-> ""]

\* rzf.add_to_zipfile(filename)
AddToZipfile ==
    \E name \in FacadeNames :
        /\ Len(rzf.members) < MaxAdded
        /\ FacadeCalled(writestr(rzf, name).f, "add_to_zipfile", writestr(rzf, name).exc)
        /\ UNCHANGED <<nops, in_with>>

\* RISCOSZipFile.infolist(): the list is built from self.zh.infolist() on the
\* first call and kept in _fileslist
facade_infolist(f) ==
    IF NotNone(f._fileslist) THEN [f |-> f, exc |-> ""]
    ELSE IF IsNone(f.zh) THEN [f |-> f, exc |-> "AttributeError"]
    ELSE [f |-> [f EXCEPT !._fileslist = Some(f.members)], exc |-> ""]

\* rzf.infolist()
FacadeInfolist ==
    /\ FacadeCalled(facade_infolist(rzf).f, "infolist", facade_infolist(rzf).exc)
    /\ UNCHANGED <<nops, in_with>>

NextFacade ==
    \/ Close
    \/ Exit
    \/ AddToZipfile
    \/ FacadeInfolist

SpecFacade == InitFacade /\ [][NextFacade]_vars

----------------------------------------------------------------------------
(* A caller that assigns only the load address, the exec address and the   *)
(* RISC OS date of a record, or an extra value whose ARC0 chunk makes the  *)
(* extra setter assign them: the stamps include times before 1980          *)

\* 0xfffffd58 (a stamp of 2020), 0xfffffd32 (a stamp of 1968), 0x12345678 (untyped)
EpochLoads == {<<88, 253, 255, 255>>, <<50, 253, 255, 255>>, <<120, 86, 52, 18>>}

\* 0, 0x6be0ff60
EpochExecs == {<<0, 0, 0, 0>>, <<96, 255, 224, 107>>}

\* RISC OS dates of 1980 and later, of 7 elements and of 6
EpochDates == {<<2020, 5, 5, 12, 24, 56, 0>>, <<1999, 12, 31, 23, 59, 58, 50>>,
               <<2020, 5, 5, 12, 24, 56>>}

\* extra values with an ARC0 chunk stamped 2020 and one stamped 1968
EpochExtras == {Extra_typed, ARC0(<<50, 253, 255, 255>>, <<0, 0, 0, 0>>, <<51, 0, 0, 0>>)}

\* zi.riscos_loadaddr = value
EpochSetRiscosLoadaddr ==
    \E value \in EpochLoads :
        /\ Applied(set_riscos_loadaddr(zi, value), "riscos_loadaddr")
        /\ setter_ran' = TRUE
        /\ UNCHANGED <<arc0_assigned, assigned_extra, extract_target>>

\* zi.riscos_execaddr = value
EpochSetRiscosExecaddr ==
    \E value \in EpochExecs :
        /\ Applied(set_riscos_execaddr(zi, value), "riscos_execaddr")
        /\ setter_ran' = TRUE
        /\ UNCHANGED <<arc0_assigned, assigned_extra, extract_target>>

\* zi.riscos_date_time = value
EpochSetRiscosDateTime ==
    \E value \in EpochDates :
        /\ Applied(set_riscos_date_time(zi, value), "riscos_date_time")
        /\ setter_ran' = TRUE
        /\ UNCHANGED <<arc0_assigned, assigned_extra, extract_target>>

\* zi.extra = value
EpochAssignExtra ==
    \E value \in EpochExtras :
        /\ Applied(set_extra(zi, value), "extra")
        /\ arc0_assigned' = TRUE
        /\ assigned_extra' = value
        /\ UNCHANGED <<setter_ran, extract_target>>

NextEpoch ==
    \/ EpochSetRiscosLoadaddr
    \/ EpochSetRiscosExecaddr
    \/ EpochSetRiscosDateTime
    \/ EpochAssignExtra

SpecEpoch == Init /\ [][NextEpoch]_vars

----------------------------------------------------------------------------
(* A caller that may set the load address of a new record and then assigns *)
(* filetypes and object types; the record is of ZipInfoRISCOS or of the    *)
(* subclass RISCOSZipFile makes for a default filetype of its own          *)

\* 0xffd (the class default), 0xfff and 0x0fd
TypeDefaults == {default_filetype_class, default_filetype_text, 253}

\* 0x000, 0x0fd, 0xff9, 0xffd, 0xfff and 0x1000
TypeFiletypes == {0, 253, 4089, 4093, 4095, directory_filetype}

\* names of new records: f; f,ff9; d/; c/f
TypeNames == {Name_f, Name_f_ff9, Name_dir, Name_c_f}

InitType ==
    /\ zi \in {[ZipInfoRISCOS(n, DefaultDate, nfs) EXCEPT !.default_filetype = d] :
                   n \in TypeNames, nfs \in BOOLEAN, d \in TypeDefaults}
    /\ exc = ""
    /\ nops = 0
    /\ setter_ran = FALSE
    /\ arc0_assigned = FALSE
    /\ assigned_extra = <<>>
    /\ last_op = "__init__"
    /\ extract_target = None
    /\ san_in = <<>>
    /\ san_out = None
    /\ rzf = RISCOSZipFile("r", <<>>)
    /\ in_with = FALSE

\* zi.riscos_loadaddr = value, on the new record
TypeSetRiscosLoadaddr ==
    /\ nops = 0
    /\ SetRiscosLoadaddr

\* zi.riscos_filetype = value
TypeSetRiscosFiletype ==
    \E value \in TypeFiletypes :
        /\ Applied(set_riscos_filetype(zi, value), "riscos_filetype")
        /\ setter_ran' = TRUE
        /\ UNCHANGED <<arc0_assigned, assigned_extra, extract_target>>

NextType ==
    \/ TypeSetRiscosLoadaddr
    \/ TypeSetRiscosFiletype
    \/ SetRiscosObjtype

SpecType == InitType /\ [][NextType]_vars

----------------------------------------------------------------------------
(* Properties *)

\* the chunks of a value the extra getter returned
ReadBackChunks == extract_extra_fields(extra(zi)[2])

\* the positions of the ARC0 chunks among them
ReadBackARC0 == {i \in 1..Len(ReadBackChunks) : IsSparkChunk(ReadBackChunks[i])}

\* the name has `..` as a path component
HasParentComponent(name) ==
    \E i \in 1..(Len(name) - 1) :
        /\ name[i] = "." /\ name[i + 1] = "."
        /\ (i = 1 \/ name[i - 1] = "/")
        /\ (i + 1 = Len(name) \/ name[i + 2] = "/")

\* a record built afresh, in NFS mode, from the filename of zi, with the same
\* date_time and text flag
FreshFromFilename ==
    [ZipInfoRISCOS(zi.filename, zi.date_time, TRUE) EXCEPT !.internal_attr = zi.internal_attr]

RiscosSetters ==
    {"riscos_filename", "riscos_date_time", "riscos_loadaddr", "riscos_execaddr",
     "riscos_attr", "riscos_filetype", "riscos_objtype"}

\* C1: whenever riscos_present is true and nfs_encoding is false, the extra
\* field read back parses to a chunk list with exactly one ARC0 chunk, and that
\* chunk carries the current riscos_loadaddr, riscos_execaddr and riscos_attr
\* and a reserved word of 0.
C1_ExactlyOneCurrentARC0 ==
    (zi._riscos_present /\ ~zi._nfs_encoding) =>
        /\ extra(zi)[1] = ""
        /\ Cardinality(ReadBackARC0) = 1
        /\ \A i \in ReadBackARC0 :
               ReadBackChunks[i][2] = header_id_riscos_spark \o riscos_loadaddr(zi)
                                      \o riscos_execaddr(zi) \o riscos_attr(zi) \o <<0, 0, 0, 0>>

\* C2: whenever nfs_encoding is true, the extra field read back contains no
\* ARC0 chunk, whatever extra value was assigned before.
C2_NoARC0InNfsMode ==
    zi._nfs_encoding => (extra(zi)[1] = "" /\ ReadBackARC0 = {})

C4_FilenameCarriesType ==
    (/\ zi._nfs_encoding
     /\ riscos_objtype(zi) = 1
     /\ last_op \in {"__init__", "nfs_encoding"} \cup RiscosSetters
     /\ exc = "") =>
        /\ riscos_filetype(FreshFromFilename) = riscos_filetype(zi)
        /\ ~IsTyped(riscos_loadaddr(zi)) =>
               /\ riscos_loadaddr(FreshFromFilename) = riscos_loadaddr(zi)
               /\ riscos_execaddr(FreshFromFilename) = riscos_execaddr(zi)

\* C5: in every reachable state the reported values agree: a riscos_filetype
\* in 0x000..0xFFF comes with a typed riscos_loadaddr holding that type;
\* riscos_filetype is -1 exactly when riscos_loadaddr is untyped; and a typed
\* riscos_loadaddr with riscos_execaddr forms the quin of riscos_date_time.
C5_ReportedValuesConsistent ==
    /\ riscos_filetype(zi) \in 0..4095 =>
           (IsTyped(riscos_loadaddr(zi)) /\ FiletypeOf(riscos_loadaddr(zi)) = riscos_filetype(zi))
    /\ (riscos_filetype(zi) = -1) <=> ~IsTyped(riscos_loadaddr(zi))
    /\ IsTyped(riscos_loadaddr(zi)) =>
           loadexec_to_quin(riscos_loadaddr(zi), riscos_execaddr(zi))
               = Some(datetime_to_quin(riscos_date_time(zi)))

\* C6: in every reachable state where riscos_objtype is 2, riscos_filetype is
\* 0x1000, and a typed riscos_loadaddr holds the internal directory filetype
\* 0xFFD in bits 8..19.
C6_DirectoryFiletype ==
    riscos_objtype(zi) = 2 =>
        /\ riscos_filetype(zi) = directory_filetype
        /\ IsTyped(riscos_loadaddr(zi)) =>
               FiletypeOf(riscos_loadaddr(zi)) = directory_filetype_internal

\* C6 happens: a directory whose stored load address is typed with another
\* filetype than 0xFFD, which only the getter turns into 0xFFD.
C6_Witness ==
    /\ riscos_objtype(zi) = 2
    /\ NotNone(zi._riscos_loadaddr)
    /\ IsTyped(Val(zi._riscos_loadaddr))
    /\ FiletypeOf(Val(zi._riscos_loadaddr)) # directory_filetype_internal

\* C7: riscos_present is true exactly when a riscos_* setter has run on the
\* record or an assigned extra value carried an ARC0 chunk.
C7_PresentIffSetterOrARC0 ==
    zi._riscos_present <=> (setter_ran \/ arc0_assigned)

\* C8: the filename extract() joins onto the destination path is relative and
\* has no `..` component.
C8_ExtractTargetInside ==
    NotNone(extract_target) =>
        /\ ~StartsWith(Val(extract_target), <<"/">>)
        /\ ~HasParentComponent(Val(extract_target))

\* C9: the result of sanitise_unix has no `..` path component and does not
\* start with `/`.
C9_SanitiseUnixSafe ==
    last_op = "sanitise_unix" =>
        /\ ~HasParentComponent(Val(san_out))
        /\ ~StartsWith(Val(san_out), <<"/">>)

\* C10: the result of sanitise_riscos has none of the characters < > * ? : " #,
\* no `.^`, no leading anchor prefix, and neither starts nor ends with `.`.
C10_SanitiseRiscosSafe ==
    last_op = "sanitise_riscos" =>
        /\ \A i \in 1..Len(Val(san_out)) :
               Val(san_out)[i] \notin {"<", ">", "*", "?", ":", "\"", "#"}
        /\ ~HasSub(Val(san_out), <<".", "^">>)
        /\ ~HasAnchorPrefix(Val(san_out))
        /\ ~StartsWith(Val(san_out), <<".">>)
        /\ ~EndsWith(Val(san_out), <<".">>)

\* C11: for every well-formed extra byte string (a concatenation of chunks,
\* each a 4-byte header and a payload of the declared length, zero-length
\* payloads included), build_extra_fields(extract_extra_fields(extra)) is
\* byte-identical to extra.
C11_ExtraFieldsRoundTrip ==
    last_op = "build_extra_fields" => san_out[2] = san_in.arg

\* C12: for every filetype f in 0x000..0xFFF and every 40-bit quin q,
\* quin_to_loadexec(q, f) is a typed load address whose filetype field is f, and
\* loadexec_to_quin of the pair is q; with f = 0x1000 the filetype field is the
\* internal directory filetype 0xFFD and the quin is still recovered.
C12_QuinLoadexecRoundTrip ==
    /\ last_op \in {"quin_to_loadexec", "loadexec_to_quin"} =>
           /\ IsTyped(san_out[1][1])
           /\ FiletypeOf(san_out[1][1]) = IF san_in.arg[2] = 4096 THEN 4093 ELSE san_in.arg[2]
    /\ last_op = "loadexec_to_quin" => san_out[2] = Some(san_in.arg[1])

\* C12 happens: a non-zero quin went through quin_to_loadexec with the directory
\* filetype 0x1000 and came back through loadexec_to_quin.
C12_Witness ==
    /\ last_op = "loadexec_to_quin"
    /\ san_in.arg = <<<<96, 255, 224, 107, 88>>, 4096>>
    /\ FiletypeOf(san_out[1][1]) = 4093

\* C13: for every name n that build_nfs_encoding returns, for any base name and
\* any load, exec and filetype arguments, extracting and rebuilding gives n
\* again: with (b, l, e, t) = extract_nfs_encoding(n),
\* build_nfs_encoding(b, l, e, t) = n.
C13_NfsRebuildIdentity ==
    last_op = "rebuild_nfs_encoding" => san_out[3] = san_out[1]

\* the name ends with `,` and 3 lowercase hex digits
EndsWithFiletypeSuffix(name) ==
    /\ Len(name) >= 4
    /\ name[Len(name) - 3] = ","
    /\ \A i \in (Len(name) - 2)..Len(name) :
           name[i] \in {"0","1","2","3","4","5","6","7","8","9","a","b","c","d","e","f"}

\* the name ends with `,`, 8 lowercase hex digits, `,` and 8 lowercase hex digits
EndsWithLoadExecSuffix(name) ==
    /\ Len(name) >= 18
    /\ name[Len(name) - 17] = "," /\ name[Len(name) - 8] = ","
    /\ \A i \in ((Len(name) - 16)..(Len(name) - 9)) \cup ((Len(name) - 7)..Len(name)) :
           name[i] \in {"0","1","2","3","4","5","6","7","8","9","a","b","c","d","e","f"}

\* C14: extract_nfs_encoding removes at most one trailing suffix, and only from
\* a name that ends with `,xxx` (then the filetype is xxx and load and exec are
\* absent) or with `,llllllll,eeeeeeee` (then load and exec are those, and the
\* filetype is (load >> 8) & 0xFFF if the load address is typed and absent if
\* not); every other name is returned unchanged with load, exec and filetype
\* all absent.
C14_ExtractNfsOnlySuffix ==
    (last_op = "extract_nfs_encoding" /\ san_in.fn = "extract_nfs") =>
        LET name == san_in.arg
            res  == san_out[1]
        IN  \/ res = <<name, None, None, None>>
            \/ /\ EndsWithFiletypeSuffix(name)
               /\ res = <<SubSeq(name, 1, Len(name) - 4), None, None,
                          Some(ParseHex3(SubSeq(name, Len(name) - 2, Len(name))))>>
            \/ /\ EndsWithLoadExecSuffix(name)
               /\ res[1] = SubSeq(name, 1, Len(name) - 18)
               /\ res[2] = Some(ParseHex8(SubSeq(name, Len(name) - 16, Len(name) - 9)))
               /\ res[3] = Some(ParseHex8(SubSeq(name, Len(name) - 7, Len(name))))
               /\ res[4] = IF IsTyped(Val(res[2])) THEN Some(FiletypeOf(Val(res[2]))) ELSE None

\* C14 happens: `f,fft` came back unchanged with nothing extracted.
C14_Witness ==
    /\ last_op = "extract_nfs_encoding"
    /\ san_in = [fn |-> "extract_nfs", arg |-> <<"f", ",", "f", "f", "t">>]
    /\ san_out[1] = <<san_in.arg, None, None, None>>

\* the positions of the character c in the name
PositionsOf(name, c) == {i \in 1..Len(name) : name[i] = c}

\* the largest of a non-empty set of positions
Last(ps) == CHOOSE i \in ps : \A j \in ps : j <= i

\* the text after the last `.` of the filename of zi, in lower case
ExtensionOfFilename ==
    Lower(SubSeq(zi.filename, Last(PositionsOf(zi.filename, ".")) + 1, Len(zi.filename)))

\* the path component before the last `/` of the filename of zi, in lower case
ParentDirOfFilename ==
    LET last == Last(PositionsOf(zi.filename, "/"))
        before == {i \in PositionsOf(zi.filename, "/") : i < last}
    IN  Lower(SubSeq(zi.filename, IF before = {} THEN 1 ELSE Last(before) + 1, last - 1))

\* what the suffix of the filename of zi encodes
FilenameSuffix == extract_nfs_encoding(zi.filename)

\* the filetype that the first matching rule gives for zi
FirstMatchingRule ==
    IF riscos_objtype(zi) = 2 THEN 4096
    ELSE IF zi._riscos_filetype # None THEN zi._riscos_filetype[1]
    ELSE IF zi._nfs_encoding /\ FilenameSuffix[4] # None THEN FilenameSuffix[4][1]
    ELSE IF zi._nfs_encoding /\ FilenameSuffix[2] # None THEN -1
    ELSE IF zi._riscos_loadaddr # None
    THEN IF IsTyped(zi._riscos_loadaddr[1]) THEN FiletypeOf(zi._riscos_loadaddr[1]) ELSE -1
    ELSE IF /\ PositionsOf(zi.filename, ".") # {}
            /\ filetype_from_extension(ExtensionOfFilename) # None
    THEN filetype_from_extension(ExtensionOfFilename)[1]
    ELSE IF /\ PositionsOf(zi.filename, ".") # {}
            /\ filetype_extension_mappings(ExtensionOfFilename) # None
    THEN filetype_extension_mappings(ExtensionOfFilename)[1]
    ELSE IF /\ PositionsOf(zi.filename, "/") # {}
            /\ filetype_parentdir_mappings(ParentDirOfFilename) # None
    THEN filetype_parentdir_mappings(ParentDirOfFilename)[1]
    ELSE IF BitAnd(zi.internal_attr, internal_attr_text) # 0 THEN 4095
    ELSE zi.default_filetype

AnyBit(n, positions) == \E k \in positions : (n \div (2 ^ k)) % 2 = 1

\* C16: when riscos_attr has not been explicitly set it is inferred from
\* external_attr, for every value of external_attr: if the high 16 bits are
\* non-zero the result is 0x22 if any 0o222 bit of the mode is set, combined
\* with 0x11 if any 0o444 bit is set; otherwise 0x11 if the DOS read-only bit is
\* set; otherwise 0x33.
C16_AttrInferred ==
    last_op = "get_riscos_attr" =>
        san_out[1] =
            IF san_in.arg.hi # 0
            THEN <<(IF AnyBit(san_in.arg.hi, {1, 4, 7}) THEN 34 ELSE 0)
                   + (IF AnyBit(san_in.arg.hi, {2, 5, 8}) THEN 17 ELSE 0), 0, 0, 0>>
            ELSE IF AnyBit(san_in.arg.lo, {0}) THEN <<17, 0, 0, 0>>
            ELSE <<51, 0, 0, 0>>

\* C16 happens: a mode with read bits only (0o444) was read as 0x11 although the
\* DOS read-only bit is clear.
C16_Witness ==
    /\ last_op = "get_riscos_attr"
    /\ san_in.arg = [lo |-> 0, hi |-> 292]
    /\ san_out[1] = <<17, 0, 0, 0>>

\* the data of the ARC0 chunk of an extra value that has one
ARC0DataOf(value) ==
    LET chunks == extract_extra_fields(value)
    IN  chunks[CHOOSE i \in 1..Len(chunks) : IsSparkChunk(chunks[i])][2]

\* C17: on a file record read from an archive with nfs_encoding enabled, the
\* RISC OS extra field takes precedence over the filename: when an ARC0 chunk is
\* present, riscos_loadaddr, riscos_execaddr and riscos_filetype are the
\* chunk's (the filetype is the field of a typed load address, -1 for an
\* untyped one); without an ARC0 chunk, what the NFS suffix of the filename
\* encodes is reported.
C17_ExtraFieldBeforeFilename ==
    (last_op = "read_member" /\ san_out[1].exc = "" /\ riscos_objtype(san_out[1]) = 1) =>
        IF HasARC0(san_in.arg.extra)
        THEN /\ riscos_loadaddr(san_out[1]) = SubSeq(ARC0DataOf(san_in.arg.extra), 5, 8)
             /\ riscos_execaddr(san_out[1]) = SubSeq(ARC0DataOf(san_in.arg.extra), 9, 12)
             /\ riscos_filetype(san_out[1]) =
                    IF IsTyped(SubSeq(ARC0DataOf(san_in.arg.extra), 5, 8))
                    THEN FiletypeOf(SubSeq(ARC0DataOf(san_in.arg.extra), 5, 8))
                    ELSE -1
        ELSE LET nfs == extract_nfs_encoding(san_in.arg.filename)
             IN  /\ nfs[4] # None => riscos_filetype(san_out[1]) = nfs[4][1]
                 /\ nfs[2] # None => /\ riscos_loadaddr(san_out[1]) = nfs[2][1]
                                     /\ riscos_execaddr(san_out[1]) = nfs[3][1]

\* C18: once riscos_loadaddr and riscos_execaddr have been set through their
\* setters, an assignment to a base property (filename, date_time,
\* internal_attr, external_attr) leaves the values they report unchanged.
C18_BasePropertiesNoEffect ==
    [][BothSet => /\ riscos_loadaddr(zi') = riscos_loadaddr(zi)
                  /\ riscos_execaddr(zi') = riscos_execaddr(zi)]_vars

\* the extra value has a 0x4341 chunk shorter than 4 bytes, or an ARC0 chunk
\* whose payload is not 20 bytes
CorruptedExtra(value) ==
    LET chunks == extract_extra_fields(value)
    IN  \E i \in 1..Len(chunks) :
            /\ chunks[i][1] = 17217
            /\ \/ Len(chunks[i][2]) < 4
               \/ /\ SubSeq(chunks[i][2], 1, 4) = <<65, 82, 67, 48>>
                  /\ Len(chunks[i][2]) # 20

\* C19: a corrupted extra field on one archive member (a 0x4341 chunk shorter
\* than 4 bytes, or an ARC0 chunk whose payload is not 20 bytes) does not make
\* infolist() fail: every member is returned, and the corrupted member is
\* returned with riscos_present false.
C19_InfolistSurvivesCorruption ==
    (last_op = "infolist" /\ san_in.fn = "infolist") =>
        /\ san_out[1].exc = ""
        /\ Len(san_out[1].list) = Len(san_in.arg)
        /\ \A i \in 1..Len(san_in.arg) :
               /\ san_out[1].list[i].filename = san_in.arg[i].filename
               /\ CorruptedExtra(san_in.arg[i].extra) => ~san_out[1].list[i]._riscos_present

\* C20: every record the archive facade writes through add_file or add_dir
\* (built by from_file in NFS mode, then switched to nfs_encoding false) emits
\* an extra field with an ARC0 chunk carrying its load address, exec address and
\* attributes, for every name on disc, with or without an NFS suffix, files and
\* directories alike.
C20_AddedRecordsEmitARC0 ==
    last_op \in {"add_file", "add_dir"} =>
        /\ extra(san_out[1])[1] = ""
        /\ HasARC0(extra(san_out[1])[2])
        /\ ARC0DataOf(extra(san_out[1])[2]) =
               <<65, 82, 67, 48>> \o riscos_loadaddr(san_out[1]) \o riscos_execaddr(san_out[1])
               \o riscos_attr(san_out[1]) \o <<0, 0, 0, 0>>

\* C21: closing the archive facade is idempotent: whatever was done before,
\* a call of close(), explicit or made on leaving the with-block, raises
\* nothing; the first releases the container handle and a later one changes
\* nothing
C21_CloseIdempotent ==
    last_op \in {"close", "__exit__"} =>
        /\ exc = ""
        /\ rzf.container = "closed"
        /\ IsNone(rzf.zh)

\* C22: whatever load addresses, exec addresses and RISC OS dates are
\* assigned, by the caller or by the extra setter that parses an ARC0 chunk,
\* the base date_time stays a DOS-epoch time: its year is at least 1980
C22_DateTimeDosEpoch == zi.date_time[1] >= 1980

\* C23: setting riscos_filetype to f (0x000..0xFFF) on a file record whose
\* load address was set explicitly leaves riscos_loadaddr typed with f in its
\* filetype field, and when the load address was typed before, its low 8
\* bits are kept
C23_FiletypeIntoLoadaddr ==
    [][(/\ last_op' = "riscos_filetype"
        /\ riscos_objtype(zi) = 1
        /\ NotNone(zi._riscos_loadaddr)
        /\ zi'._riscos_filetype # Some(directory_filetype))
       => /\ IsTyped(riscos_loadaddr(zi'))
          /\ FiletypeOf(riscos_loadaddr(zi')) = Val(zi'._riscos_filetype)
          /\ IsTyped(Val(zi._riscos_loadaddr))
                 => riscos_loadaddr(zi')[1] = Val(zi._riscos_loadaddr)[1]]_vars

\* C24: setting riscos_date_time to a valid date of 6 or of 7 elements
\* succeeds and leaves its year, month, day, hour, minute and second in the
\* base date_time; when a load or exec address is set, the stored pair then
\* carries the stamp of that date
C24_DateTimeSetterAccepts ==
    last_op = "riscos_date_time" =>
        /\ exc = ""
        /\ zi.date_time = Upto(Val(zi._riscos_date_time), 6)
        /\ (NotNone(zi._riscos_loadaddr) /\ riscos_filetype(zi) # -1)
               => loadexec_to_quin(Val(zi._riscos_loadaddr), Val(zi._riscos_execaddr))
                      = Some(datetime_to_quin(Val(zi._riscos_date_time)))

\* every bit of the mask, given by its bit positions, is set in n
AllBits(n, positions) == \A k \in positions : (n \div (2 ^ k)) % 2 = 1

\* C25: after riscos_attr = v, for every external_attr before the call: the
\* DOS read-only bit is set iff v has neither write bit (0x22); a POSIX mode
\* that was not zero has its write bits 0o222 set iff v has a write bit and
\* its read bits 0o444 set iff v has a read bit (0x11); a POSIX mode of zero
\* stays zero
C25_AttrReflected ==
    last_op = "set_riscos_attr" =>
        /\ AnyBit(san_out[1].external_attr.lo, {0}) <=> ~AnyBit(san_in.arg.value[1], {1, 5})
        /\ san_in.arg.hi # 0 =>
               /\ IF AnyBit(san_in.arg.value[1], {1, 5})
                  THEN AllBits(san_out[1].external_attr.hi, {1, 4, 7})
                  ELSE ~AnyBit(san_out[1].external_attr.hi, {1, 4, 7})
               /\ IF AnyBit(san_in.arg.value[1], {0, 4})
                  THEN AllBits(san_out[1].external_attr.hi, {2, 5, 8})
                  ELSE ~AnyBit(san_out[1].external_attr.hi, {2, 5, 8})
        /\ san_in.arg.hi = 0 => san_out[1].external_attr.hi = 0

\* the default filetype in force on r: default_filetype_text when the text flag
\* is set, default_filetype otherwise
DefaultInForce(r) ==
    IF BitAnd(r.internal_attr, internal_attr_text) # 0 THEN default_filetype_text
    ELSE r.default_filetype

\* C26: in NFS mode, setting riscos_filetype to f (0x000..0xFFF) on a file
\* record leaves a filename that ends with "," and the 3 lowercase hex digits
\* of f, except that it carries no such suffix when f is the default filetype
\* in force; the text flag is set iff f is default_filetype_text and that is
\* not the record's default_filetype.  This for every default filetype.
C26_NfsSuffixFollowsFiletype ==
    [][(/\ last_op' = "riscos_filetype"
        /\ zi._nfs_encoding
        /\ riscos_objtype(zi) = 1
        /\ zi'._riscos_filetype # Some(directory_filetype))
       => /\ BitAnd(zi'.internal_attr, internal_attr_text) # 0
                 <=> (/\ zi'._riscos_filetype = Some(default_filetype_text)
                      /\ default_filetype_text # zi'.default_filetype)
          /\ EndsWith(zi'.filename, <<",">> \o Hex3(Val(zi'._riscos_filetype)))
                 <=> Val(zi'._riscos_filetype) # DefaultInForce(zi')]_vars

\* C27: a directory member (DOS directory bit set, or name ending in "/")
\* whose extra field carries an ARC0 chunk has the load address of the chunk
\* forced to (load & 0xFF) | 0xFFF00000 | (0xFFD << 8): the record reports a
\* typed riscos_loadaddr, riscos_filetype 0x1000 and riscos_objtype 2, even
\* when the top 12 bits of the stored load address are zero
C27_DirectoryLoadForced ==
    last_op = "read_directory" =>
        /\ san_out[1].exc = ""
        /\ san_out[1]._riscos_loadaddr = Some(<<ARC0DataOf(san_in.arg.extra)[5], 253, 255, 255>>)
        /\ IsTyped(riscos_loadaddr(san_out[1]))
        /\ riscos_filetype(san_out[1]) = directory_filetype
        /\ riscos_objtype(san_out[1]) = 2

\* C28: switching nfs_encoding off on a file record whose filename carries a
\* valid NFS suffix strips the suffix and promotes what it encoded to explicit
\* fields: riscos_present is true, riscos_filetype reports what it reported
\* before, and for a load/exec suffix riscos_loadaddr and riscos_execaddr
\* report the encoded pair
C28_ToggleKeepsSuffixValues ==
    last_op = "toggle_nfs" =>
        /\ san_out[1].filename = san_in.arg.base
        /\ san_out[1]._riscos_present
        /\ riscos_filetype(san_out[1])
               = riscos_filetype(ZipInfoRISCOS(san_in.arg.filename, DefaultDate, TRUE))
        /\ NotNone(san_in.arg.loadexec) =>
               /\ riscos_loadaddr(san_out[1]) = Val(san_in.arg.loadexec)[1]
               /\ riscos_execaddr(san_out[1]) = Val(san_in.arg.loadexec)[2]

\* w is an integer in 0..2^32-1: four bytes, no sign marker
IsWord32(w) == Len(w) = 4 /\ \A i \in 1..4 : w[i] \in Byte

\* C29: whatever setters were called with in-range arguments, riscos_loadaddr
\* and riscos_execaddr report integers in 0..2^32-1, which struct.pack('<I')
\* can pack into the ARC0 chunk
C29_LoadExecInRange ==
    /\ IsWord32(riscos_loadaddr(zi))
    /\ IsWord32(riscos_execaddr(zi))

\* C30: after any sequence of riscos_filetype and riscos_objtype assignments
\* (no load address was assigned), riscos_filetype reports 0x1000 exactly
\* when riscos_objtype reports 2, and a record whose filetype was just set to
\* 0x1000 has the DOS directory bit and a filename ending in "/"
C30_DirectoryFiletypeIffObjtype ==
    IsNone(zi._riscos_loadaddr) =>
        /\ riscos_filetype(zi) = directory_filetype <=> riscos_objtype(zi) = 2
        /\ (last_op = "riscos_filetype" /\ zi._riscos_filetype = Some(directory_filetype))
               => /\ BitAnd(zi.external_attr.lo, external_attr_msdos_directory) # 0
                  /\ EndsWith(zi.filename, <<"/">>)

====
